---------------------------- MODULE Spec2Model ----------------------------
(***************************************************************************)
(* A model of the becca_test worlds (src/becca_test/*.py), of the base     *)
(* world (src/beccatest/base_world.py), of center_surround                 *)
(* (src/beccatest/world_tools.py) and of the driving loop run()            *)
(* (src/beccatest/test.py).                                                *)
(*                                                                         *)
(* Numbers.  Rewards are kept in hundredths (reward 1.0 is 100).  Action   *)
(* entries are kept in halves (entry 1.0 is 2, entry 0.5 is 1).  The       *)
(* fractional world_state of the one-dimensional grids is a binary         *)
(* floating-point number: it is kept as an integer count of 2^-MantissaBits*)
(* and every arithmetic result is rounded to MantissaBits significant      *)
(* bits, ties to even, as IEEE-754 does with 53 bits.                      *)
(***************************************************************************)
EXTENDS Integers, Sequences, FiniteSets, TLC

(***************************************************************************)
(* Bounds of the model.                                                    *)
(***************************************************************************)
\* Significant bits of the modelled floating-point numbers.
MantissaBits == 5
\* The largest timestep a world is stepped to.
MaxT == 2
\* The largest max_delay a delay world is given where max_delay varies.
MaxDelay == 3
\* The largest side of the images the field-of-view arithmetic is tried on.
MaxSide == 9

(***************************************************************************)
(* Program constants.                                                      *)
(***************************************************************************)
\* grid_1D: num_sensors, num_actions
Grid1DNumSensors == 9
Grid1DNumActions == 8
\* grid_1D_ms: num_sensors (= num_positions), num_actions
MsNumSensors == 9
MsNumActions == 2
\* grid_1D_noise: num_real_sensors, num_noise_sensors, num_actions
num_real_sensors == 3
num_noise_sensors == 0
NoiseNumActions == 2
\* grid_2D: world_size, num_actions
world_size == 5
Grid2DNumActions == 8
\* grid_1D_delay: max_delay
max_delay == 1
\* jump_fraction in hundredths: 0.1 in the grids and image_1D, 0.05 in image_2D
GridJumpFraction == 10
Image2DJumpFraction == 5
\* grid_1D_chase: size
size == 7
\* image_1D, image_2D: fov_span
fov_span == 5
\* base world: the default lifespan
DefaultLifespan == 10000
\* energy_cost in hundredths of reward per unit of energy
Grid1DEnergyCost == 1
Grid2DEnergyCost == 5

(***************************************************************************)
(* Floating point.                                                         *)
(***************************************************************************)
RECURSIVE Pow2(_)
Pow2(n) == IF n = 0 THEN 1 ELSE 2 * Pow2(n - 1)

\* 1.0 in units of 2^-MantissaBits
Unit == Pow2(MantissaBits)

Abs(x) == IF x < 0 THEN -x ELSE x

\* The number of bits of the natural number n.
RECURSIVE BitLen(_)
BitLen(n) == IF n = 0 THEN 0 ELSE 1 + BitLen(n \div 2)

\* Mathematical floor of x / d, d > 0 (TLA+ \div already floors).
FloorDiv(x, d) == x \div d

\* The exact value x (in units) rounded to MantissaBits significant bits,
\* to nearest, ties to even: the result of one floating-point operation.
RoundFloat(x) ==
    LET m == Abs(x)
        e == BitLen(m)
    IN  IF e <= MantissaBits THEN x
        ELSE LET ulp  == Pow2(e - MantissaBits)
                 q    == m \div ulp
                 rem  == m % ulp
                 half == ulp \div 2
                 up   == rem > half \/ (rem = half /\ q % 2 = 1)
                 r    == (IF up THEN q + 1 ELSE q) * ulp
             IN  IF x < 0 THEN -r ELSE r

\* The values np.random.random_sample() returns: k * 2^-MantissaBits in [0, 1).
RandomSample == 0 .. (Unit - 1)

\* random_sample() < jump_fraction, jump_fraction in hundredths
JumpDrawn(r, fraction) == 100 * r < fraction * Unit

\* The draws a jump takes its destination from: every fifth value of
\* random_sample() and the largest one.
JumpSamples == {r \in RandomSample : r % 5 = 0 \/ r = Unit - 1}

\* The outcomes of the jump test over all draws.
JumpOutcomes(fraction) == {JumpDrawn(r, fraction) : r \in RandomSample}

\* world_state -= n * floor_divide(world_state, n), on floats.
WrapFloat(ws, n) == RoundFloat(ws - (n * FloorDiv(ws, n * Unit)) * Unit)

\* int(np.floor(world_state))
FloorInt(ws) == FloorDiv(ws, Unit)

(***************************************************************************)
(* Action vectors.  An entry is a count of halves.                         *)
(***************************************************************************)
\* np.round of one entry: to the nearest integer, ties to even.
RoundEntry(h) ==
    LET q == h \div 2
    IN  IF h % 2 = 0 THEN q ELSE IF q % 2 = 0 THEN q ELSE q + 1

\* np.round(action)
RoundAction(a) == [i \in DOMAIN a |-> RoundEntry(a[i])]

\* action[np.nonzero(action)] = 1.
Binarize(a) == [i \in DOMAIN a |-> IF a[i] # 0 THEN 1 ELSE 0]

ZeroAction(n) == [i \in 1..n |-> 0]

\* The action vectors the model feeds a world of n actions: the resting
\* action, the first command of each direction at 1.0, the first command
\* at 0.5, the last command at 1.5, every command of the first direction
\* at once (in grid_1D a move of 10, more than the grid size), all, and
\* the last command of the first direction at 1.0 (in grid_1D four steps
\* to the right).
ActionSet(n) ==
    IF n = 0 THEN {<<>>}
    ELSE {ZeroAction(n),
          [i \in 1..n |-> IF i = 1 THEN 2 ELSE 0],
          [i \in 1..n |-> IF i = n \div 2 + 1 THEN 2 ELSE 0],
          [i \in 1..n |-> IF i = 1 THEN 1 ELSE 0],
          [i \in 1..n |-> IF i = n THEN 3 ELSE 0],
          [i \in 1..n |-> IF i <= n \div 2 THEN 2 ELSE 0],
          [i \in 1..n |-> 2],
          [i \in 1..n |-> IF i = n \div 2 THEN 2 ELSE 0]}

\* A vector of n zeros with a 1 at (0-based) index k.
OneHotAndFirst(n, k) == [i \in 1 .. n |-> IF i = k + 1 \/ i = 1 THEN 1 ELSE 0]

OneHot(n, k) == [i \in 1..n |-> IF i = k + 1 THEN 1 ELSE 0]

RECURSIVE SumSeq(_)
SumSeq(s) == IF s = <<>> THEN 0 ELSE s[1] + SumSeq(Tail(s))

Max(a, b) == IF a > b THEN a ELSE b
Min(a, b) == IF a < b THEN a ELSE b

(***************************************************************************)
(* State.                                                                  *)
(***************************************************************************)
VARIABLES
    kind,             \* the world class that was constructed
    lifespan,         \* World.lifespan
    image,            \* the shape [h, w] of the image an image world loaded
    timestep,         \* World.timestep
    action,           \* self.action (self.actions in fruit)
    sensors,          \* self.sensors, or the sensors the last step returned
    reward,           \* self.reward, or the reward the last step returned,
                      \* in hundredths
    crashed,          \* TRUE once a step has raised an exception
    wpc,              \* where the world is: "idle" or inside a step
    energy,           \* self.energy (grid_1D, grid_1D_ms, grid_1D_chase)
    world_state,      \* self.world_state (grids)
    simple_state,     \* self.simple_state (1D grids)
    jump_taken,       \* grids: whether the last step jumped
    future_reward,    \* self.future_reward (grid_1D_delay), in hundredths
    new_reward,       \* grid_1D_delay: new_reward of the last assign_reward
    total_computed,   \* grid_1D_delay: the sum of every new_reward so far
    total_delivered,  \* grid_1D_delay: the sum of every reward returned so far
    scheduled,        \* grid_1D_delay: the rewards computed and not delivered
                      \* before this tick, each as <<tick computed, delay
                      \* drawn, new_reward>>
    position,         \* self.position (grid_1D_chase)
    target_position,  \* self.target_position (grid_1D_chase)
    column_position,  \* self.column_position (image worlds)
    row_position,     \* self.row_position (image_2D)
    column_history,   \* self.column_history (image worlds)
    row_history,      \* self.row_history (image_2D)
    step_taken,       \* <<row_step, column_step>> of the last step of an
                      \* image world, after the noise
    fruit_size,       \* self.size (fruit)
    color,            \* self.color (fruit)
    edible,           \* self.edible (fruit)
    acted,            \* self.acted (fruit)
    eat,              \* self.eat (fruit)
    discard,          \* self.discard (fruit)
    state,            \* self.state (vacuum)
    cartpole_counter, \* self.cartpole_counter (cartpole)
    alive,            \* self.alive (cartpole)
    done,             \* self.done (cartpole)
    pc,               \* where run() is: "free" when no loop drives the world
    actions,          \* run(): the local actions
    loop_sensors,     \* run(): the local sensors
    loop_reward,      \* run(): the local reward
    alive_result,     \* what the last call of is_alive returned
    agent_in,         \* the pair the last call of sense_act_learn was given
    prime_action,     \* the action the first call of step was given
    raised_by,        \* the call whose exception ended run(), or "none"
    calls             \* the calls run() has made so far, in order

fixedVars   == <<kind, lifespan, image>>
delayVars   == <<new_reward, total_computed, total_delivered, scheduled>>
gridVars    == <<energy, world_state, simple_state, jump_taken, future_reward,
                 delayVars>>
chaseVars   == <<position, target_position>>
imageVars   == <<column_position, row_position, column_history, row_history,
                 step_taken>>
fruitVars   == <<fruit_size, color, edible, acted, eat, discard>>
vacuumVars  == <<state>>
cartVars    == <<cartpole_counter, alive, done>>
worldVars   == <<kind, lifespan, image, timestep, action, sensors, reward,
                 crashed, wpc, energy, world_state, simple_state,
                 jump_taken, future_reward, new_reward, total_computed,
                 total_delivered, scheduled,
                 position, target_position, column_position,
                 row_position, column_history, row_history, step_taken,
                 fruit_size, color,
                 edible, acted, eat, discard, state, cartpole_counter, alive,
                 done>>

runVars     == <<pc, actions, loop_sensors, loop_reward, alive_result,
                 agent_in, prime_action, raised_by, calls>>

\* The world classes.
Grid1DKinds == {"grid_1D", "grid_1D_delay"}
WrapKinds   == {"grid_1D", "grid_1D_delay", "grid_1D_ms", "grid_1D_noise"}
Grid2DKinds == {"grid_2D", "grid_2D_dc"}
ImageKinds  == {"image_1D", "image_2D"}
\* The continuous-sensor subclasses, and the class each one extends.
ContKinds   == {"grid_1D_cont", "grid_1D_delay_cont", "grid_1D_ms_cont",
                "grid_1D_chase_cont", "grid_2D_cont"}
Kinds       == {"base", "grid_1D_chase", "fruit", "vacuum", "cartpole"}
               \cup WrapKinds \cup Grid2DKinds \cup ImageKinds \cup ContKinds

\* The class whose step, assign_reward and constructor class k runs: the
\* parent of a continuous-sensor subclass, else k itself.
ParentOf(k) ==
    CASE k = "grid_1D_cont"       -> "grid_1D"
      [] k = "grid_1D_delay_cont" -> "grid_1D_delay"
      [] k = "grid_1D_ms_cont"    -> "grid_1D_ms"
      [] k = "grid_1D_chase_cont" -> "grid_1D_chase"
      [] k = "grid_2D_cont"       -> "grid_2D"
      [] OTHER                    -> k

\* num_sensors and num_actions as each constructor sets them.
NumSensors(k) ==
    CASE k \in {"grid_1D_cont", "grid_1D_delay_cont", "grid_1D_ms_cont"} -> 1
      [] k \in {"grid_1D_chase_cont", "grid_2D_cont"} -> 2
      [] k \in Grid1DKinds     -> Grid1DNumSensors
      [] k = "grid_1D_ms"      -> MsNumSensors
      [] k = "grid_1D_noise"   -> num_noise_sensors + num_real_sensors
      [] k = "grid_2D"         -> world_size * world_size
      [] k = "grid_2D_dc"      -> world_size * 2
      [] k = "grid_1D_chase"   -> size + 2 * (size - 1)
      [] k \in ImageKinds      -> 2 * fov_span * fov_span
      [] k = "fruit"           -> 4
      [] k = "vacuum"          -> 2
      [] k = "cartpole"        -> 4
      [] OTHER                 -> 0

NumActions(k) ==
    CASE ParentOf(k) \in Grid1DKinds   -> Grid1DNumActions
      [] ParentOf(k) = "grid_1D_ms"    -> MsNumActions
      [] k = "grid_1D_noise"           -> NoiseNumActions
      [] ParentOf(k) \in Grid2DKinds   -> Grid2DNumActions
      [] ParentOf(k) = "grid_1D_chase" -> 2 * (size - 1)
      [] k = "image_1D"        -> 8
      [] k = "image_2D"        -> 16
      [] k \in {"fruit", "vacuum", "cartpole"} -> 2
      [] OTHER                 -> 0

(***************************************************************************)
(* The base world.                                                         *)
(***************************************************************************)
\* base_world.World.step
BaseStep(a) ==
    /\ timestep' = timestep + 1
    /\ sensors' = ZeroAction(NumSensors(kind))
    /\ reward' = 0
    /\ UNCHANGED <<fixedVars, action, crashed, wpc, gridVars, chaseVars,
                   imageVars, fruitVars, vacuumVars, cartVars>>

\* is_alive that ends the world a tick early.
IsAliveEarly == timestep + 1 < lifespan

\* is_alive with the comparison made inclusive.
IsAliveInclusive == timestep <= lifespan

\* base_world.World.is_alive
IsAlive == timestep < lifespan

(***************************************************************************)
(* grid_1D and grid_1D_delay.                                              *)
(***************************************************************************)
\* assign_reward with the fifth position rewarded.
Grid1DAssignRewardFifth(s, en) ==
    Max(0 - 100 * s[9] + 100 * s[5] - en * Grid1DEnergyCost, -100)

\* grid_1D.World.assign_reward, in hundredths.
Grid1DAssignReward(s, en) ==
    Max(0 - 100 * s[9] + 100 * s[4] - en * Grid1DEnergyCost, -100)

\* The reward grid_1D_delay computes before it enters the queue.
DelayNewReward(s, en) == 0 - 100 * s[9] + 100 * s[4] - en * Grid1DEnergyCost

\* The queue with new_reward added to its first slot, whatever the delay.
DelayAddFirst(q, delay, nr) ==
    [i \in DOMAIN q |-> IF i = 1 THEN q[i] + nr ELSE q[i]]

\* The queue with new_reward dropped.
DelayAddLost(q, delay, nr) == q

\* future_reward[delay] += new_reward
DelayAdd(q, delay, nr) ==
    [i \in DOMAIN q |-> IF i = delay + 1 THEN q[i] + nr ELSE q[i]]

\* The queue with the append left out.
DelayNotAppended(q) == q

\* future_reward.append(0.): the queue between the append and the pop
DelayAppended(q) == Append(q, 0)

\* The values np.random.randint(0, max_delay) returns.
DelayDraws == 0 .. (max_delay - 1)

\* The same draw in a world whose max_delay is the length its queue was
\* built with (future_reward = [0.] * self.max_delay).
DelayDrawsOf(q) == 0 .. (Len(q) - 1)

\* The rewards on record once the reward nr with the delay drawn has been
\* computed at tick t: those already due before t are forgotten.
Scheduled(sch, t, delay, nr) ==
    {rec \in sch \cup {<<t, delay, nr>>} : rec[1] + rec[2] >= t}

\* The move the eight grid_1D commands add up to: entries 1..4 step 1..4
\* to the right, entries 5..8 step 1..4 to the left.
Grid1DStepSize(a) ==
    a[1] + a[2] * 2 + a[3] * 3 + a[4] * 4 - a[5] - a[6] * 2 - a[7] * 3 - a[8] * 4

\* The energy of the net move only.
Grid1DEnergyNet(a) ==
    IF Grid1DStepSize(a) >= 0 THEN Grid1DStepSize(a) ELSE 0 - Grid1DStepSize(a)

\* self.energy of grid_1D: every command charged by the steps it asks for.
Grid1DEnergy(a) ==
    a[1] + a[2] * 2 + a[3] * 3 + a[4] * 4 + a[5] + a[6] * 2 + a[7] * 3 + a[8] * 4

\* The discretized position grid_1D derives from the wrapped world_state.
Grid1DSimpleState(ws) == IF FloorInt(ws) = 9 THEN 0 ELSE FloorInt(ws)

\* grid_1D.World.step; delay is the slot grid_1D_delay draws.  The step
\* raises IndexError when sensors[simple_state], sensors[8] or sensors[3]
\* is not an entry of the num_sensors sensors.
Grid1DStep(a, jump, r, delay) ==
    \E act \in {RoundAction(a)} :
    \E en \in {Grid1DEnergy(act)} :
    \E moved \in {RoundFloat(world_state + Grid1DStepSize(act) * Unit)} :
    \E jumped \in {IF jump THEN RoundFloat(NumSensors(kind) * r) ELSE moved} :
    \E ws \in {WrapFloat(jumped, NumSensors(kind))} :
    \E ss \in {Grid1DSimpleState(ws)} :
    \E s \in {OneHot(NumSensors(kind), ss)} :
        /\ action' = act
        /\ timestep' = timestep + 1
        /\ energy' = en
        /\ world_state' = ws
        /\ jump_taken' = jump
        /\ simple_state' = ss
        /\ IF ss \in 0 .. (NumSensors(kind) - 1) /\ {4, 9} \subseteq DOMAIN s
           THEN /\ sensors' = s
                /\ crashed' = FALSE
                /\ IF ParentOf(kind) = "grid_1D"
                   THEN /\ reward' = Grid1DAssignReward(s, en)
                        /\ UNCHANGED <<future_reward, delayVars>>
                   ELSE \E q \in {DelayAppended(
                                     DelayAdd(future_reward, delay,
                                              DelayNewReward(s, en)))} :
                            /\ reward' = Head(q)
                            /\ future_reward' = Tail(q)
                            /\ new_reward' = DelayNewReward(s, en)
                            /\ total_computed' = total_computed
                                                  + DelayNewReward(s, en)
                            /\ total_delivered' = total_delivered + Head(q)
                            /\ scheduled' = Scheduled(scheduled, timestep + 1,
                                                      delay,
                                                      DelayNewReward(s, en))
           ELSE /\ crashed' = TRUE
                /\ UNCHANGED <<sensors, reward, future_reward, delayVars>>
        /\ UNCHANGED <<fixedVars, wpc, chaseVars, imageVars, fruitVars,
                       vacuumVars, cartVars>>

(***************************************************************************)
(* grid_1D_ms.                                                             *)
(***************************************************************************)
\* int(self.world_state): truncation toward zero
TruncInt(ws) == IF ws >= 0 THEN ws \div Unit ELSE 0 - ((0 - ws) \div Unit)

\* assign_reward without np.maximum(reward, -1.).
MsAssignRewardUnfloored(ws, en) ==
    (IF TruncInt(ws) = 3 THEN 100 ELSE 0)
    - (IF TruncInt(ws) = 8 THEN 100 ELSE 0)
    - en * Grid1DEnergyCost

\* grid_1D_ms.World.assign_reward, in hundredths.
MsAssignReward(ws, en) ==
    Max((IF TruncInt(ws) = 3 THEN 100 ELSE 0)
        - (IF TruncInt(ws) = 8 THEN 100 ELSE 0)
        - en * Grid1DEnergyCost, -100)

\* The discretized position grid_1D_ms derives from the wrapped world_state.
MsSimpleState(ws) == IF FloorInt(ws) = 9 THEN 0 ELSE FloorInt(ws)

\* self.sense(): grid_1D_ms.World.sense, or grid_1D_ms_cont.World.sense
\* that overrides it.
MsSense(k, ws, ss) ==
    IF k = "grid_1D_ms_cont" THEN <<ws>> ELSE OneHot(NumSensors(k), ss)

\* grid_1D_ms.World.step
MsStep(a, jump, r) ==
    \E act \in {RoundAction(a)} :
    \E en \in {act[1] + act[2]} :
    \E moved \in {RoundFloat(world_state + (act[1] - act[2]) * Unit)} :
    \E jumped \in {IF jump THEN RoundFloat(MsNumSensors * r) ELSE moved} :
    \E ws \in {WrapFloat(jumped, MsNumSensors)} :
    \E ss \in {MsSimpleState(ws)} :
        /\ action' = act
        /\ timestep' = timestep + 1
        /\ energy' = en
        /\ world_state' = ws
        /\ jump_taken' = jump
        /\ simple_state' = ss
        /\ IF kind = "grid_1D_ms_cont" \/ ss \in 0 .. (NumSensors(kind) - 1)
           THEN /\ sensors' = MsSense(kind, ws, ss)
                /\ reward' = MsAssignReward(ws, en)
                /\ crashed' = FALSE
           ELSE /\ crashed' = TRUE
                /\ UNCHANGED <<sensors, reward>>
        /\ UNCHANGED <<fixedVars, wpc, future_reward, delayVars, chaseVars, imageVars,
                       fruitVars, vacuumVars, cartVars>>

(***************************************************************************)
(* grid_1D_noise.                                                          *)
(***************************************************************************)
\* The discretized position grid_1D_noise derives from the wrapped state.
NoiseSimpleState(ws) == FloorInt(ws)

\* grid_1D_noise.World.step.  With num_noise_sensors = 0 the noise block
\* of the sensors is empty.
NoiseStep(a, jump, r) ==
    \E act \in {Binarize(a)} :
    \E en \in {act[1] + act[2]} :
    \E moved \in {RoundFloat(world_state + (act[1] - act[2]) * Unit)} :
    \E jumped \in {IF jump THEN RoundFloat(num_real_sensors * r) ELSE moved} :
    \E ws \in {WrapFloat(jumped, num_real_sensors)} :
    \E ss \in {NoiseSimpleState(ws)} :
        /\ action' = act
        /\ timestep' = timestep + 1
        /\ world_state' = ws
        /\ jump_taken' = jump
        /\ simple_state' = ss
        /\ IF ss \in 0 .. (num_real_sensors - 1)
           THEN /\ sensors' = OneHot(num_real_sensors, ss)
                               \o ZeroAction(num_noise_sensors)
                /\ reward' = (IF ss = 1 THEN 100 ELSE -100)
                             - en * Grid1DEnergyCost
                /\ crashed' = FALSE
           ELSE /\ crashed' = TRUE
                /\ UNCHANGED <<sensors, reward>>
        /\ UNCHANGED <<fixedVars, wpc, energy, future_reward, delayVars, chaseVars,
                       imageVars, fruitVars, vacuumVars, cartVars>>

(***************************************************************************)
(* grid_2D and grid_2D_dc.                                                 *)
(***************************************************************************)
\* np.fmod(x, world_size): the remainder with the sign of x.
RemainderOfSign(x, n) == IF x >= 0 THEN x % n ELSE 0 - ((0 - x) % n)

\* np.remainder(x, world_size)
Remainder(x, n) == x % n

\* grid_2D.World.assign_sensors and grid_2D_dc.World.assign_sensors
AssignSensors(k, ws) ==
    IF ParentOf(k) = "grid_2D"
    THEN OneHot(NumSensors(k), ws[1] + ws[2] * world_size)
    ELSE [i \in 1 .. NumSensors(k) |->
             IF i = ws[1] + 1 \/ i = ws[2] + world_size + 1 THEN 1 ELSE 0]

\* The entry assign_sensors of grid_2D sets is one of the num_sensors
\* entries; otherwise the assignment raises IndexError.
Grid2DIndexed(k, ws) ==
    ParentOf(k) = "grid_2D" => ws[1] + ws[2] * world_size < NumSensors(k)

targets   == {<<1, 1>>, <<3, 3>>}
obstacles == {<<1, 3>>, <<3, 1>>}

\* The reward grid_2D assigns to a position, in hundredths.
Grid2DReward(ws, en) ==
    (IF ws \in targets THEN 100 ELSE IF ws \in obstacles THEN -100 ELSE 0)
    - Grid2DEnergyCost * en

\* The values np.random.randint(0, world_size, size=2) returns.
Grid2DJumps == (0 .. (world_size - 1)) \X (0 .. (world_size - 1))

\* The energy grid_2D charges for the binarized action a.
Grid2DEnergy(a) ==
    a[1] + a[2] + a[5] + a[6] + 2 * (a[3] + a[4]) + 2 * (a[7] + a[8])

\* grid_2D.World.step
Grid2DStep(a, jump, j) ==
    \E act \in {Binarize(a)} :
    \E en \in {Grid2DEnergy(act)} :
    \E moved \in {<<world_state[1] + act[1] - act[5] + 2 * act[3] - 2 * act[7],
                    world_state[2] + act[2] - act[6] + 2 * act[4] - 2 * act[8]>>} :
    \E jumped \in {IF jump THEN j ELSE moved} :
    \E ws \in {<<Remainder(jumped[1], world_size),
                 Remainder(jumped[2], world_size)>>} :
        /\ action' = act
        /\ timestep' = timestep + 1
        /\ world_state' = ws
        /\ jump_taken' = jump
        /\ IF Grid2DIndexed(kind, ws)
           THEN /\ sensors' = AssignSensors(kind, ws)
                /\ reward' = Grid2DReward(ws, en)
                /\ crashed' = FALSE
           ELSE /\ crashed' = TRUE
                /\ UNCHANGED <<sensors, reward>>
        /\ UNCHANGED <<fixedVars, wpc, energy, simple_state,
                       future_reward, delayVars, chaseVars, imageVars, fruitVars,
                       vacuumVars, cartVars>>

(***************************************************************************)
(* grid_1D_chase.                                                          *)
(***************************************************************************)
\* np.sum(action[lo .. hi] * scale), scale = 1 .. size - 1
RECURSIVE ScaledSum(_, _, _)
ScaledSum(a, offset, n) ==
    IF n = 0 THEN 0 ELSE a[offset + n] * n + ScaledSum(a, offset, n - 1)

\* The move without the two clamps.
ChaseClampOff(p) == p

\* position after the move: np.minimum(., size - 1), then np.maximum(., 0)
ChaseClamp(p) == Max(Min(p, size - 1), 0)

\* assign_reward without the punishment of the energy spent.
ChaseAssignRewardFree(p, t, en) == IF p = t THEN 100 ELSE 0

\* grid_1D_chase.World.assign_reward, in hundredths
ChaseAssignReward(p, t, en) ==
    (IF p = t THEN 100 ELSE 0) - en * Grid1DEnergyCost

\* Both entries step sets are among the num_sensors sensors of class k.
ChaseIndexed(k, p, t) ==
    /\ p < NumSensors(k)
    /\ (IF p - t < 0 THEN size - 1 ELSE 2 * (size - 1)) + Abs(p - t)
           < NumSensors(k)

\* The sensors with one distance block for both directions.
ChaseSensorsOneBlock(p, t) ==
    [i \in 1 .. NumSensors("grid_1D_chase") |->
        IF i = p + 1 \/ i = size - 1 + Abs(p - t) + 1 THEN 1 ELSE 0]

\* The sensors grid_1D_chase.World.step builds after move_target.
ChaseSensors(p, t) ==
    [i \in 1 .. NumSensors("grid_1D_chase") |->
        IF \/ i = p + 1
           \/ (p - t < 0 /\ i = size - 1 + Abs(p - t) + 1)
           \/ (p - t >= 0 /\ i = 2 * (size - 1) + Abs(p - t) + 1)
        THEN 1 ELSE 0]

\* grid_1D_chase.World.step up to the call of move_target
ChaseStep(a) ==
    \E act \in {RoundAction(a)} :
    \E right \in {ScaledSum(act, 0, size - 1)} :
    \E left \in {ScaledSum(act, size - 1, size - 1)} :
    \E p \in {ChaseClamp(position + right - left)} :
        /\ action' = act
        /\ timestep' = timestep + 1
        /\ energy' = right + left
        /\ position' = p
        /\ reward' = ChaseAssignReward(p, target_position, right + left)
        /\ wpc' = "move_target"
        /\ UNCHANGED <<fixedVars, sensors, crashed, world_state, simple_state,
                       jump_taken, future_reward, delayVars, target_position,
                       imageVars, fruitVars,
                       vacuumVars, cartVars>>

\* The values np.random.randint(1) returns.
TargetDrawsOne == {0}

\* The values np.random.randint(size) returns.
TargetDraws == 0 .. (size - 1)

\* move_target drawing a new target whether or not the agent is on it.
MoveTargetAlways ==
    /\ wpc = "move_target"
    /\ \E t \in TargetDraws : target_position' = t
    /\ UNCHANGED <<fixedVars, timestep, action, sensors, reward, crashed, wpc,
                   gridVars, position, imageVars, fruitVars, vacuumVars,
                   cartVars>>

\* One pass of the loop of grid_1D_chase.World.move_target: the target is
\* on the agent and is drawn again.
MoveTarget ==
    /\ wpc = "move_target"
    /\ target_position = position
    /\ \E t \in TargetDraws : target_position' = t
    /\ UNCHANGED <<fixedVars, timestep, action, sensors, reward, crashed, wpc,
                   gridVars, position, imageVars, fruitVars, vacuumVars,
                   cartVars>>

\* step returns without waiting for the loop of move_target to end.
ChaseReturnEarly ==
    /\ wpc = "move_target"
    /\ sensors' = ChaseSensors(position, target_position)
    /\ wpc' = "idle"
    /\ UNCHANGED <<fixedVars, timestep, action, reward, crashed, gridVars,
                   chaseVars, imageVars, fruitVars, vacuumVars, cartVars>>

\* The loop of move_target ends; step builds the sensors and returns, or
\* raises IndexError at the first entry that is not one of the num_sensors
\* sensors, leaving self.sensors as far as it was built.
ChaseReturn ==
    /\ wpc = "move_target"
    /\ target_position # position
    /\ IF ChaseIndexed(kind, position, target_position)
       THEN /\ sensors' = ChaseSensors(position, target_position)
            /\ crashed' = FALSE
       ELSE /\ sensors' = [i \in 1 .. NumSensors(kind) |->
                              IF i = position + 1 THEN 1 ELSE 0]
            /\ crashed' = TRUE
    /\ wpc' = "idle"
    /\ UNCHANGED <<fixedVars, timestep, action, reward, gridVars,
                   chaseVars, imageVars, fruitVars, vacuumVars, cartVars>>

(***************************************************************************)
(* image_1D and image_2D.  The image is a uniform gray one, known by its  *)
(* shape; every pixel holds Gray.  Pixel values are floating-point numbers *)
(* kept as integer counts of 1 / PixelUnit.                                *)
(***************************************************************************)
\* int(x / 2) and the like: n / d truncated toward zero, d > 0
TruncDiv(n, d) == IF n >= 0 THEN n \div d ELSE 0 - ((0 - n) \div d)

\* np.ceil(n / d) and np.floor(n / d), d > 0
CeilDiv(n, d) == 0 - ((0 - n) \div d)

\* np.round(n / d): to the nearest integer, ties to even, d > 0
RoundDiv(n, d) ==
    LET q == n \div d
        twice == 2 * (n % d)
    IN  IF twice < d THEN q
        ELSE IF twice > d THEN q + 1
        ELSE IF q % 2 = 0 THEN q ELSE q + 1

\* The shapes (rows, columns) of the images the image worlds are run on.
Image1DShapes == {[h |-> 6, w |-> 10], [h |-> 8, w |-> 10]}
Image2DShapes == {[h |-> 3, w |-> 3], [h |-> 3, w |-> 4]}

\* fov_height = fov_width, in half pixels: image_1D takes the smaller side
\* of the image, image_2D half of it (fov_fraction = 0.5).
FovHalves(k, im) ==
    IF k = "image_1D" THEN 2 * Min(im.h, im.w) ELSE Min(im.h, im.w)

\* column_min with np.floor in the place of np.ceil.
ColumnMinFloor(k, im) == FovHalves(k, im) \div 4

\* column_min, column_max, row_min, row_max
ColumnMin(k, im) == CeilDiv(FovHalves(k, im), 4)
ColumnMax(k, im) == im.w - ColumnMin(k, im)
RowMin(k, im) == CeilDiv(FovHalves(k, im), 4)
RowMax(k, im) == im.h - RowMin(k, im)

\* np.random.random_integers(lo, hi)
RandomIntegers(lo, hi) == lo .. hi

\* max(., lo) and then min(., hi)
ImageClamp(p, lo, hi) == Min(Max(p, lo), hi)

\* The eight commands of one axis, in sixteenths of max_step_size:
\* entries off+1 .. off+4 move by 1/2, 1/4, 1/8, 1/16 of it one way,
\* entries off+5 .. off+8 the other way.
AxisCommand(a, off) ==
    8 * a[off + 1] + 4 * a[off + 2] + 2 * a[off + 3] + a[off + 4]
    - 8 * a[off + 5] - 4 * a[off + 6] - 2 * a[off + 7] - a[off + 8]

\* The window [row_lo, row_hi) x [col_lo, col_hi) of the image at a position:
\* int(position - fov / 2) : int(position + fov / 2).
FovWindow(k, im, row, col) ==
    LET f == FovHalves(k, im)
    IN  <<IF k = "image_1D" THEN 0 ELSE TruncDiv(4 * row - f, 4),
          IF k = "image_1D" THEN im.h ELSE TruncDiv(4 * row + f, 4),
          TruncDiv(4 * col - f, 4),
          TruncDiv(4 * col + f, 4)>>

\* The pixel value 1.0, and the value of every pixel of the image.
PixelUnit == Pow2(2 * MantissaBits)
Gray == PixelUnit \div 2

\* Not a number: what np.mean returns for an empty block.  It lies outside
\* the range of the pixel arithmetic and every operation hands it on.
NaN == 0 - Pow2(4 * MantissaBits)

\* x + y and x - y in floating point
FloatAdd(x, y) == IF x = NaN \/ y = NaN THEN NaN ELSE RoundFloat(x + y)
FloatSub(x, y) == IF x = NaN \/ y = NaN THEN NaN ELSE RoundFloat(x - y)

\* x / d in floating point, d a positive integer: the exact quotient rounded
\* to MantissaBits significant bits, ties to even.
FloatDiv(x, d) ==
    IF x = NaN THEN NaN
    ELSE LET m    == Abs(x)
             ulp  == Pow2(Max(BitLen(m \div d) - MantissaBits, 0))
             q    == m \div (d * ulp)
             rem  == 2 * (m - q * d * ulp)
             up   == rem > d * ulp \/ (rem = d * ulp /\ q % 2 = 1)
             r    == (IF up THEN q + 1 ELSE q) * ulp
         IN  IF x < 0 THEN 0 - r ELSE r

\* np.maximum(x, 0), np.minimum(x, 0), np.abs(x)
FloatMaxZero(x) == IF x = NaN THEN NaN ELSE Max(x, 0)
FloatMinZero(x) == IF x = NaN THEN NaN ELSE Min(x, 0)
FloatAbs(x) == IF x = NaN THEN NaN ELSE Abs(x)

\* int(float(k) * block_width), block_width = float(side) / float(span + 2)
BlockEdge(k, side, span) == (k * side) \div (span + 2)

\* The sum of n pixels of value c.
RECURSIVE BlockSum(_, _)
BlockSum(n, c) == IF n = 0 THEN 0 ELSE FloatAdd(BlockSum(n - 1, c), c)

\* np.mean of a block of n pixels of value c: 0 / 0 for an empty block.
BlockMean(n, c) == IF n = 0 THEN NaN ELSE FloatDiv(BlockSum(n, c), n)

\* super_pixels[row][col] of center_surround over a constant field of view
\* of fh rows and fw columns of value c.
SuperPixel(row, col, fh, fw, hspan, vspan, c) ==
    BlockMean((BlockEdge(row + 1, fh, vspan) - BlockEdge(row, fh, vspan))
                  * (BlockEdge(col + 1, fw, hspan) - BlockEdge(col, fw, hspan)),
              c)

\* center_surround_pixels[row][col]: the center less a sixth of each of
\* N, S, W, E and a twelfth of each of NW, SW, NE, SE, in the order of the
\* source.
SurroundPixel(row, col, fh, fw, hspan, vspan, c) ==
    LET sp(r, k) == SuperPixel(r, k, fh, fw, hspan, vspan, c)
        d1 == FloatSub(sp(row + 1, col + 1), FloatDiv(sp(row, col + 1), 6))
        d2 == FloatSub(d1, FloatDiv(sp(row + 2, col + 1), 6))
        d3 == FloatSub(d2, FloatDiv(sp(row + 1, col), 6))
        d4 == FloatSub(d3, FloatDiv(sp(row + 1, col + 2), 6))
        d5 == FloatSub(d4, FloatDiv(sp(row, col), 12))
        d6 == FloatSub(d5, FloatDiv(sp(row + 2, col), 12))
        d7 == FloatSub(d6, FloatDiv(sp(row, col + 2), 12))
    IN  FloatSub(d7, FloatDiv(sp(row + 2, col + 2), 12))

\* world_tools.center_surround of a constant field of view, raveled: entry
\* i is the pixel of row (i - 1) \div hspan and column (i - 1) % hspan.
center_surround(fh, fw, hspan, vspan, c) ==
    [i \in 1 .. (vspan * hspan) |->
        SurroundPixel((i - 1) \div hspan, (i - 1) % hspan,
                      fh, fw, hspan, vspan, c)]

\* np.concatenate((np.maximum(unsplit, 0), np.abs(np.minimum(unsplit, 0))))
SplitSensors(unsplit) ==
    [i \in 1 .. (2 * Len(unsplit)) |->
        IF i <= Len(unsplit) THEN FloatMaxZero(unsplit[i])
        ELSE FloatAbs(FloatMinZero(unsplit[i - Len(unsplit)]))]

\* The numbers of rows and of columns a field of view can have.
ImageSides == UNION {{im.h, im.w} : im \in Image1DShapes \cup Image2DShapes}
FovSides == 0 .. (CHOOSE m \in ImageSides : \A x \in ImageSides : x <= m)

\* The sensors of an image world for each shape of the field of view: the
\* image is uniform, so they depend on the shape of the window alone.
FovSensors ==
    [fh \in FovSides |-> [fw \in FovSides |->
        SplitSensors(center_surround(fh, fw, fov_span, fov_span, Gray))]]

\* self.sensors of an image world: the center-surround features of a window
\* <<row_lo, row_hi, col_lo, col_hi>>, the positive parts and then the
\* sizes of the negative parts.
ImageSensors(window) ==
    FovSensors[window[2] - window[1]][window[4] - window[3]]

\* The differences r1 - r2 of the two draws of the noise factor of image_1D,
\* noise_factor = 1 + 0.2 * (r1 - r2), in units of 2^-MantissaBits.
NoiseDiffs == {0 - (Unit - 1), 0, Unit - 1}

\* int(raw_col_step * noise_factor), raw_col_step = c * max_step_size / 16
\* and max_step_size = image_width / 2
Image1DColumnStep(c, w, d) == TruncDiv(c * w * (5 * Unit + d), 160 * Unit)

\* The reward of image_1D in hundredths: 1 within reward_region_width / 2
\* = w / 16 of target_column = w / 2, less |column_step| / max_step_size *
\* step_cost = 0.2 * |column_step| / w.
Image1DReward(col, cstep, w) ==
    (IF Abs(16 * col - 8 * w) < w THEN 100 ELSE 0) - (20 * Abs(cstep)) \div w

\* The history holds the last position alone.
HistoryLastOnly(h, p) == <<p>>

\* self.column_history.append(.), self.row_history.append(.)
HistoryAppend(h, p) == Append(h, p)

\* image_1D.World.step
Image1DStep(a, d, jump, j) ==
    \E act \in {Binarize(a)} :
    \E cstep \in {Image1DColumnStep(AxisCommand(act, 0), image.w, d)} :
    \E moved \in {ImageClamp(column_position + cstep,
                             ColumnMin(kind, image), ColumnMax(kind, image))} :
    \E col \in {IF jump THEN j ELSE moved} :
        /\ timestep' = timestep + 1
        /\ action' = act
        /\ column_history' = HistoryAppend(column_history, moved)
        /\ step_taken' = <<0, cstep>>
        /\ column_position' = col
        /\ sensors' = ImageSensors(FovWindow(kind, image, 0, col))
        /\ reward' = Image1DReward(col, cstep, image.w)
        /\ UNCHANGED <<fixedVars, crashed, wpc, gridVars, chaseVars,
                       row_position, row_history, fruitVars, vacuumVars,
                       cartVars>>

\* The values 1 + np.random.normal(scale=noise_magnitude) is drawn from, in
\* tenths: the normal distribution is unbounded on both sides.
NormalFactors == {-10, 9, 30}

\* np.round(np.round(c * max_step_size / 16) * factor), max_step_size =
\* im_size / 2
Image2DAxisStep(c, im, f) ==
    RoundDiv(RoundDiv(c * Min(im.h, im.w), 32) * f, 10)

\* The reward of image_2D in hundredths: 1 when both the column and the
\* row are within reward_region_width / 2 = im_size / 16 of the target.
Image2DReward(row, col, im) ==
    IF /\ Abs(16 * col - 8 * im.w) < Min(im.h, im.w)
       /\ Abs(16 * row - 8 * im.h) < Min(im.h, im.w)
    THEN 100 ELSE 0

\* image_2D.World.step
Image2DStep(a, fr, fc, jump, jr, jc) ==
    \E act \in {Binarize(a)} :
    \E rstep \in {Image2DAxisStep(AxisCommand(act, 0), image, fr)} :
    \E cstep \in {Image2DAxisStep(AxisCommand(act, 8), image, fc)} :
    \E row \in {IF jump THEN jr
                ELSE ImageClamp(row_position + rstep,
                                RowMin(kind, image), RowMax(kind, image))} :
    \E col \in {IF jump THEN jc
                ELSE ImageClamp(column_position + cstep,
                                ColumnMin(kind, image), ColumnMax(kind, image))} :
        /\ timestep' = timestep + 1
        /\ action' = act
        /\ row_position' = row
        /\ column_position' = col
        /\ row_history' = HistoryAppend(row_history, row)
        /\ step_taken' = <<rstep, cstep>>
        /\ column_history' = HistoryAppend(column_history, col)
        /\ sensors' = ImageSensors(FovWindow(kind, image, row, col))
        /\ reward' = Image2DReward(row, col, image)
        /\ UNCHANGED <<fixedVars, crashed, wpc, gridVars, chaseVars,
                       fruitVars, vacuumVars, cartVars>>

(***************************************************************************)
(* fruit.                                                                  *)
(***************************************************************************)
\* self.edible as grab_fruit computes it
Edible(sz, c) == (sz = 0 /\ c = 0) \/ (sz = 1 /\ c = 1)

\* self.sensors as grab_fruit builds them: large?, small?, yellow?, purple?
FruitSensors(sz, c) ==
    <<IF sz = 0 THEN 1 ELSE 0, IF sz = 1 THEN 1 ELSE 0,
      IF c = 0 THEN 1 ELSE 0, IF c = 1 THEN 1 ELSE 0>>

\* The values np.random.randint(2) returns.
FruitDraws == {0, 1}

\* fruit.World.grab_fruit with the draws sz and c
GrabFruit(sz, c) ==
    /\ fruit_size' = sz
    /\ color' = c
    /\ edible' = Edible(sz, c)
    /\ sensors' = FruitSensors(sz, c)

\* The reward with a mistake punished no more than doing nothing.
FruitRewardLenient(e, d, ed) ==
    IF (e /\ ed) \/ (d /\ ~ed) THEN 100 ELSE -10

\* The reward of fruit.World.step, in hundredths
FruitReward(e, d, ed) ==
    IF (e /\ ed) \/ (d /\ ~ed) THEN 100
    ELSE IF (e /\ ~ed) \/ (d /\ ed) THEN -90
    ELSE -10

\* fruit.World.step; an entry above 0.5 is above 1 half
FruitStep(a, sz, c) ==
    \E e \in {a[1] > 1} :
    \E d \in {~(a[1] > 1) /\ a[2] > 1} :
        /\ timestep' = timestep + 1
        /\ action' = a
        /\ eat' = e
        /\ discard' = d
        /\ acted' = (e \/ d)
        /\ reward' = FruitReward(e, d, edible)
        /\ IF e \/ d
           THEN GrabFruit(sz, c)
           ELSE UNCHANGED <<fruit_size, color, edible, sensors>>
        /\ UNCHANGED <<fixedVars, crashed, wpc, gridVars, chaseVars,
                       imageVars, vacuumVars, cartVars>>

(***************************************************************************)
(* vacuum.                                                                 *)
(***************************************************************************)
\* The room after the two commands and the collision checks.
VacuumMoved(st, act) ==
    LET m == st - (IF act[1] # 0 THEN 1 ELSE 0) + (IF act[2] # 0 THEN 1 ELSE 0)
    IN  IF m = -1 THEN 0 ELSE IF m = 2 THEN 1 ELSE m

\* The reward with walls that do not hurt.
VacuumRewardSoftWall(st, act) ==
    IF Abs(VacuumMoved(st, act) - st) = 1 THEN 100 ELSE 0

\* The reward of vacuum.World.step, in hundredths.
VacuumReward(st, act) ==
    LET m == st - (IF act[1] # 0 THEN 1 ELSE 0) + (IF act[2] # 0 THEN 1 ELSE 0)
    IN  IF Abs(VacuumMoved(st, act) - st) = 1 THEN 100
        ELSE IF m = -1 \/ m = 2 THEN -100 ELSE 0

\* vacuum.World.step
VacuumStep(a) ==
    \E act \in {RoundAction(a)} :
        /\ timestep' = timestep + 1
        /\ action' = act
        /\ state' = VacuumMoved(state, act)
        /\ sensors' = OneHot(NumSensors(kind), VacuumMoved(state, act))
        /\ reward' = VacuumReward(state, act)
        /\ UNCHANGED <<fixedVars, crashed, wpc, gridVars, chaseVars,
                       imageVars, fruitVars, cartVars>>

(***************************************************************************)
(* cartpole.  The gym environment is outside the repository: env.step      *)
(* returns any observation, a reward and any done flag.                    *)
(***************************************************************************)
\* The rewards env.step returns, in hundredths.
GymRewards == {0, 100}

\* timestep incremented at every step, as in the other worlds.
CartpoleTimestepEveryStep(ts, d) == ts + 1

\* cartpole: self.timestep += 1 only when env.step reported done
CartpoleTimestep(ts, d) == IF d THEN ts + 1 ELSE ts

\* cartpole.Cartpole.step; d and rw are what env.step returns
CartpoleStep(a, d, rw) ==
    \E ts \in {CartpoleTimestep(timestep, d)} :
    \E cc \in {IF d THEN 0 ELSE cartpole_counter + 1} :
        /\ action' = a
        /\ sensors' = <<"observation">>
        /\ reward' = rw
        /\ timestep' = ts
        /\ cartpole_counter' = cc
        /\ done' = FALSE
        /\ alive' = (IF ts = lifespan \/ cc = 500 THEN FALSE ELSE alive)
        /\ UNCHANGED <<fixedVars, crashed, wpc, gridVars, chaseVars,
                       imageVars, fruitVars, vacuumVars>>

\* cartpole.Cartpole.is_alive
CartpoleIsAlive == alive

(***************************************************************************)
(* Construction and the step of any world.                                 *)
(***************************************************************************)
\* The state the constructor of class k leaves; im is the shape of the image
\* an image world loads.
ConstructedWith(k, L, im, delays) ==
    /\ kind = k
    /\ lifespan = L
    /\ image = im
    /\ timestep = (IF k = "cartpole" THEN 0 ELSE -1)
    /\ action = ZeroAction(NumActions(k))
    /\ reward = 0
    /\ crashed = FALSE
    /\ wpc = "idle"
    /\ energy = 0
    /\ world_state = (IF ParentOf(k) \in Grid2DKinds THEN <<1, 1>> ELSE 0)
    /\ simple_state = (IF ParentOf(k) = "grid_1D_ms" THEN 1 ELSE 0)
    /\ jump_taken = FALSE
    /\ new_reward = 0
    /\ total_computed = 0
    /\ total_delivered = 0
    /\ scheduled = {}
    /\ future_reward = (IF ParentOf(k) = "grid_1D_delay"
                        THEN [i \in 1 .. delays |-> 0] ELSE <<>>)
    /\ position = (IF ParentOf(k) = "grid_1D_chase" THEN 2 ELSE 0)
    /\ target_position = (IF ParentOf(k) = "grid_1D_chase" THEN 1 ELSE 0)
    /\ column_position \in (IF k \in ImageKinds
                            THEN RandomIntegers(ColumnMin(k, im), ColumnMax(k, im))
                            ELSE {0})
    /\ row_position \in (IF k = "image_2D"
                         THEN RandomIntegers(RowMin(k, im), RowMax(k, im))
                         ELSE {0})
    /\ column_history = <<>>
    /\ row_history = <<>>
    /\ step_taken = <<0, 0>>
    /\ fruit_size \in (IF k = "fruit" THEN FruitDraws ELSE {0})
    /\ color \in (IF k = "fruit" THEN FruitDraws ELSE {0})
    /\ edible = (k = "fruit" /\ Edible(fruit_size, color))
    /\ sensors = (IF k = "fruit" THEN FruitSensors(fruit_size, color)
                  ELSE IF k = "cartpole" THEN <<"observation">>
                  ELSE ZeroAction(NumSensors(k)))
    /\ acted = FALSE
    /\ eat = FALSE
    /\ discard = FALSE
    /\ state = 0
    /\ cartpole_counter = 0
    /\ alive = (k = "cartpole")
    /\ done = FALSE

\* The shapes of the images class k can be constructed on.
ImageShapes(k) ==
    IF k = "image_1D" THEN Image1DShapes
    ELSE IF k = "image_2D" THEN Image2DShapes
    ELSE {[h |-> 0, w |-> 0]}

\* The world as its class constructs it.
Constructed(k, L, im) == ConstructedWith(k, L, im, max_delay)

\* world.step(a) of the constructed class, over every outcome of its draws;
\* in grid_1D_chase, up to the loop of move_target.
WorldStep(a) ==
    /\ wpc = "idle"
    /\ ~crashed
    /\ \/ /\ kind = "base"
          /\ BaseStep(a)
       \/ /\ ParentOf(kind) \in Grid1DKinds
          /\ \E jump \in JumpOutcomes(GridJumpFraction) :
               \E r \in (IF jump THEN JumpSamples ELSE {0}) :
                  \E delay \in (IF ParentOf(kind) = "grid_1D_delay"
                                THEN DelayDraws ELSE {0}) :
                     Grid1DStep(a, jump, r, delay)
       \/ /\ ParentOf(kind) = "grid_1D_ms"
          /\ \E jump \in JumpOutcomes(GridJumpFraction) :
               \E r \in (IF jump THEN JumpSamples ELSE {0}) : MsStep(a, jump, r)
       \/ /\ kind = "grid_1D_noise"
          /\ \E jump \in JumpOutcomes(GridJumpFraction) :
               \E r \in (IF jump THEN JumpSamples ELSE {0}) : NoiseStep(a, jump, r)
       \/ /\ ParentOf(kind) \in Grid2DKinds
          /\ \E jump \in JumpOutcomes(GridJumpFraction) :
               \E j \in (IF jump THEN Grid2DJumps ELSE {<<0, 0>>}) :
                  Grid2DStep(a, jump, j)
       \/ /\ ParentOf(kind) = "grid_1D_chase"
          /\ ChaseStep(a)
       \/ /\ kind = "image_1D"
          /\ \E d \in NoiseDiffs :
               \E jump \in JumpOutcomes(GridJumpFraction) :
                  \E j \in (IF jump
                            THEN RandomIntegers(ColumnMin(kind, image),
                                                ColumnMax(kind, image))
                            ELSE {0}) :
                     Image1DStep(a, d, jump, j)
       \/ /\ kind = "image_2D"
          /\ \E fr \in NormalFactors : \E fc \in NormalFactors :
               \E jump \in JumpOutcomes(Image2DJumpFraction) :
                  \E jr \in (IF jump
                             THEN RandomIntegers(RowMin(kind, image),
                                                 RowMax(kind, image))
                             ELSE {0}) :
                     \E jc \in (IF jump
                                THEN RandomIntegers(ColumnMin(kind, image),
                                                    ColumnMax(kind, image))
                                ELSE {0}) :
                        Image2DStep(a, fr, fc, jump, jr, jc)
       \/ /\ kind = "fruit"
          /\ \E sz \in FruitDraws : \E c \in FruitDraws : FruitStep(a, sz, c)
       \/ /\ kind = "vacuum"
          /\ VacuumStep(a)
       \/ /\ kind = "cartpole"
          /\ \E d \in BOOLEAN : \E rw \in GymRewards : CartpoleStep(a, d, rw)

(***************************************************************************)
(* The worlds stepped freely: any class, any action at every step.         *)
(***************************************************************************)
\* No loop drives the world.
NoRun ==
    /\ pc = "free"
    /\ actions = <<>>
    /\ loop_sensors = <<>>
    /\ loop_reward = 0
    /\ alive_result = "none"
    /\ agent_in = <<>>
    /\ prime_action = <<>>
    /\ raised_by = "none"
    /\ calls = <<>>

Init ==
    /\ \E k \in Kinds : \E im \in ImageShapes(k) :
          Constructed(k, DefaultLifespan, im)
    /\ NoRun

\* The action vectors a caller passes to step: those of num_actions
\* entries and, for grid_1D and grid_1D_chase, one with an entry too many
\* (the first command at 1.0 and an extra entry at 1.0).
StepInputs(k) ==
    ActionSet(NumActions(k))
    \cup (IF k \in {"grid_1D", "grid_1D_chase"}
          THEN {[i \in 1 .. (NumActions(k) + 1) |->
                    IF i = 1 \/ i = NumActions(k) + 1 THEN 2 ELSE 0]}
          ELSE {})

\* Any caller calls world.step with any action.
Step ==
    /\ timestep < MaxT
    /\ cartpole_counter < MaxT
    /\ \E a \in StepInputs(kind) : WorldStep(a)
    /\ UNCHANGED runVars

\* move_target draws again inside a step.
StepMoveTarget == MoveTarget /\ UNCHANGED runVars

\* The step of the chase world returns.
StepReturn == ChaseReturn /\ UNCHANGED runVars

Next == Step \/ StepMoveTarget \/ StepReturn

vars == <<worldVars, runVars>>

Spec == Init /\ [][Next]_vars

(***************************************************************************)
(* The worlds stepped freely under a fair random source: in the loop of    *)
(* move_target every position is drawn again and again, and a step that    *)
(* can return does.                                                        *)
(***************************************************************************)
\* The pass of the loop of move_target that draws t.
MoveTargetDraw(t) == StepMoveTarget /\ target_position' = t

FairDraws ==
    /\ \A t \in 0 .. (size - 1) : WF_vars(MoveTargetDraw(t))
    /\ WF_vars(StepReturn)

SpecFair == Init /\ [][Next]_vars /\ FairDraws

(***************************************************************************)
(* The delay world with max_delay set to any value from 1 to MaxDelay      *)
(* (grid_1D_delay.py:41 assigns 1), stepped freely.                        *)
(***************************************************************************)
InitDelay ==
    /\ \E m \in 1 .. MaxDelay :
          ConstructedWith("grid_1D_delay", DefaultLifespan,
                          [h |-> 0, w |-> 0], m)
    /\ NoRun

\* The action vectors fed to this world: the resting action and one step
\* to the right, one to the left and four to the right, each at 1.0.
DelayStepInputs ==
    {a \in ActionSet(Grid1DNumActions) :
        \A i \in DOMAIN a : a[i] # 0 => a[i] = 2 /\ i \in {1, 4, 5}}

\* The samples of np.random.random_sample a jump of this world draws.
DelayJumpSamples == {0, Unit - 1}

\* Any caller calls step with any action; the delay is drawn below the
\* world's max_delay.
StepDelay ==
    /\ timestep < MaxT
    /\ wpc = "idle"
    /\ ~crashed
    /\ \E a \in DelayStepInputs :
         \E jump \in JumpOutcomes(GridJumpFraction) :
           \E r \in (IF jump THEN DelayJumpSamples ELSE {0}) :
             \E delay \in DelayDrawsOf(future_reward) :
                Grid1DStep(a, jump, r, delay)
    /\ UNCHANGED runVars

NextDelay == StepDelay

SpecDelay == InitDelay /\ [][NextDelay]_vars

(***************************************************************************)
(* The driving loop: run(world) of test.py.                                *)
(***************************************************************************)
\* actions = np.zeros(world.num_actions)
PrimeAction(n) == ZeroAction(n)

\* world.is_alive() of the constructed class
WorldIsAlive == IF kind = "cartpole" THEN CartpoleIsAlive ELSE IsAlive

\* run() keeps the pair it had.
ReturnedStale(s, r) == <<loop_sensors, loop_reward>>

\* sensors, reward = world.step(actions): the pair run() keeps
Returned(s, r) == <<s, r>>

\* The pair run() hands to brain.sense_act_learn.
AgentInput(s, r) == <<s, r>>

\* world.visualize(brain) raises: vacuum defines visualize(self) without
\* the brain parameter run() passes.
VisualizeRaises(k) == k = "vacuum"

\* The call world.step(a) from run() at pc = from; run() goes on at pc = to
\* when the step returns.
RunStepCall(a, from, to) ==
    /\ pc = from
    /\ timestep <= MaxT
    /\ cartpole_counter < MaxT
    /\ WorldStep(a)
    /\ calls' = Append(calls, "step")
    /\ prime_action' = (IF calls = <<>> THEN a ELSE prime_action)
    /\ IF crashed'
       THEN /\ pc' = "raised"
            /\ raised_by' = "step"
            /\ UNCHANGED <<loop_sensors, loop_reward>>
       ELSE IF wpc' = "idle"
       THEN /\ pc' = to
            /\ \E ret \in {Returned(sensors', reward')} :
                  /\ loop_sensors' = ret[1]
                  /\ loop_reward' = ret[2]
            /\ UNCHANGED raised_by
       ELSE /\ pc' = "in_" \o from
            /\ UNCHANGED <<loop_sensors, loop_reward, raised_by>>
    /\ UNCHANGED <<alive_result, agent_in>>

\* actions = np.zeros(world.num_actions); sensors, reward = world.step(actions)
RunPrime ==
    /\ pc = "prime"
    /\ \E a \in {PrimeAction(NumActions(kind))} :
          /\ actions' = a
          /\ RunStepCall(a, "prime", "check")

\* while world.is_alive():
RunCheck ==
    /\ pc = "check"
    /\ alive_result' = WorldIsAlive
    /\ pc' = (IF alive_result' THEN "agent" ELSE "report")
    /\ calls' = Append(calls, "is_alive")
    /\ UNCHANGED <<worldVars, actions, loop_sensors, loop_reward, agent_in,
                   prime_action, raised_by>>

\* actions = brain.sense_act_learn(sensors, reward): the brain may answer
\* with any action.
RunAgent ==
    /\ pc = "agent"
    /\ agent_in' = AgentInput(loop_sensors, loop_reward)
    /\ \E a \in ActionSet(NumActions(kind)) : actions' = a
    /\ pc' = "step"
    /\ calls' = Append(calls, "sense_act_learn")
    /\ UNCHANGED <<worldVars, loop_sensors, loop_reward, alive_result,
                   prime_action, raised_by>>

\* The caller's array after world.step(a), entries in halves.  grid_2D,
\* image_1D and image_2D keep action.ravel(), a view of the caller's array,
\* and write 1. into its nonzero entries; the other classes work on a new
\* array (np.round, copy) or only read.
CallerAction(k, a) ==
    IF ParentOf(k) \in Grid2DKinds \cup ImageKinds
    THEN [i \in DOMAIN a |-> IF a[i] # 0 THEN 2 ELSE 0]
    ELSE a

\* sensors, reward = world.step(actions)
RunStep ==
    /\ RunStepCall(actions, "step", "visualize")
    /\ actions' = CallerAction(kind, actions)

\* move_target draws again inside a step run() has called.
RunMoveTarget ==
    /\ pc \in {"in_prime", "in_step"}
    /\ MoveTarget
    /\ UNCHANGED runVars

\* The step run() has called returns from the chase world.
RunStepReturn ==
    /\ pc \in {"in_prime", "in_step"}
    /\ ChaseReturn
    /\ IF crashed'
       THEN /\ pc' = "raised"
            /\ raised_by' = "step"
            /\ UNCHANGED <<loop_sensors, loop_reward>>
       ELSE /\ pc' = (IF pc = "in_prime" THEN "check" ELSE "visualize")
            /\ \E ret \in {Returned(sensors', reward')} :
                  /\ loop_sensors' = ret[1]
                  /\ loop_reward' = ret[2]
            /\ UNCHANGED raised_by
    /\ UNCHANGED <<actions, alive_result, agent_in, prime_action, calls>>

\* world_visualize_period and brain_visualize_period as each constructor
\* leaves them: vacuum and grid_1D_ms keep those of the base world.
WorldVisualizePeriod(k) ==
    CASE k = "cartpole"                                    -> 50
      [] ParentOf(k) \in {"base", "vacuum", "grid_1D_ms"} -> 10000
      [] OTHER                                             -> 1000000

BrainVisualizePeriod(k) ==
    CASE k = "cartpole"                                    -> 50
      [] ParentOf(k) \in {"base", "vacuum", "grid_1D_ms"} -> 10000
      [] OTHER                                             -> 1000

\* World.visualize at timestep ts calls visualize_world(brain).
RendersWorld(k, ts) == ts % WorldVisualizePeriod(k) = 0

\* world.visualize(brain) at timestep ts shows the world: the visualize of
\* grid_1D_ms prints it at every call, that of the base world calls
\* visualize_world on the ticks of the period.
WorldShown(k, ts) == ParentOf(k) = "grid_1D_ms" \/ RendersWorld(k, ts)

\* World.visualize at timestep ts calls brain.visualize().
RendersBrain(k, ts) == ts % BrainVisualizePeriod(k) = 0

\* What happens to an exception raised inside world.visualize(brain):
\* neither World.visualize nor run() has a handler, so it leaves run().
VisualizeFailure(failed) == IF failed THEN "raised" ELSE "check"

\* world.visualize(brain).  grid_1D_ms overrides visualize and prints at
\* every call; the other worlds render when timestep is a multiple of a
\* period, and visualize_world or brain.visualize may then fail.
RunVisualize ==
    /\ pc = "visualize"
    /\ calls' = Append(calls, "visualize")
    /\ IF VisualizeRaises(kind)
       THEN /\ pc' = "raised"
            /\ raised_by' = "visualize call"
       ELSE \E failed \in (IF /\ ParentOf(kind) # "grid_1D_ms"
                              /\ \/ RendersWorld(kind, timestep)
                                 \/ RendersBrain(kind, timestep)
                           THEN BOOLEAN ELSE {FALSE}) :
               /\ pc' = VisualizeFailure(failed)
               /\ raised_by' = (IF failed THEN "visualize" ELSE raised_by)
    /\ UNCHANGED <<worldVars, actions, loop_sensors, loop_reward,
                   alive_result, agent_in, prime_action>>

\* performance = brain.report_performance(); return performance
RunReport ==
    /\ pc = "report"
    /\ pc' = "done"
    /\ calls' = Append(calls, "report_performance")
    /\ UNCHANGED <<worldVars, actions, loop_sensors, loop_reward,
                   alive_result, agent_in, prime_action, raised_by>>

\* The lifespans run() is checked on.
Lifespans == 0 .. MaxT

InitRun ==
    /\ \E k \in Kinds : \E im \in ImageShapes(k) : \E L \in Lifespans :
          Constructed(k, L, im)
    /\ pc = "prime"
    /\ actions = <<>>
    /\ loop_sensors = <<>>
    /\ loop_reward = 0
    /\ alive_result = "none"
    /\ agent_in = <<>>
    /\ prime_action = <<>>
    /\ raised_by = "none"
    /\ calls = <<>>

NextRun ==
    \/ RunPrime
    \/ RunCheck
    \/ RunAgent
    \/ RunStep
    \/ RunMoveTarget
    \/ RunStepReturn
    \/ RunVisualize
    \/ RunReport

SpecRun == InitRun /\ [][NextRun]_vars

(***************************************************************************)
(* Properties.                                                             *)
(***************************************************************************)
\* The number of calls of step run() has made.
StepCalls == Cardinality({i \in DOMAIN calls : calls[i] = "step"})

\* C1: in every wraparound grid world, after every step call the
\* discretized position is within the grid: 0 <= simple_state < size in
\* grid_1D, grid_1D_delay, grid_1D_ms and grid_1D_noise, and both
\* coordinates of grid_2D are in 0 .. world_size - 1.
C1_PositionBounds ==
    /\ kind \in WrapKinds /\ timestep >= 0
          => simple_state \in 0 .. (NumSensors(kind) - 1)
    /\ kind \in Grid2DKinds
          => /\ world_state[1] \in 0 .. (world_size - 1)
             /\ world_state[2] \in 0 .. (world_size - 1)

\* C2: in the chase world position stays within [0, size - 1]; in the
\* image worlds column_position stays within [column_min, column_max] and
\* in image_2D row_position within [row_min, row_max], after every step.
C2_ClampedBounds ==
    /\ kind = "grid_1D_chase" => position \in 0 .. (size - 1)
    /\ kind \in ImageKinds
          => column_position \in ColumnMin(kind, image) .. ColumnMax(kind, image)
    /\ kind = "image_2D"
          => row_position \in RowMin(kind, image) .. RowMax(kind, image)

\* A chase step whose move went past the right end of the world.
C2_Witness ==
    /\ kind = "grid_1D_chase"
    /\ timestep >= 0
    /\ position = size - 1
    /\ energy > size

\* C3: in the chase world target_position differs from position in the
\* initial state and whenever step has returned.
C3_TargetDistinct ==
    kind = "grid_1D_chase" /\ wpc = "idle" => target_position # position

\* A chase step that caught the target (and was rewarded for it) has
\* returned.
C3_Witness ==
    /\ kind = "grid_1D_chase"
    /\ wpc = "idle"
    /\ timestep >= 0
    /\ reward > 0

\* C4: in the delay world the queue future_reward has exactly max_delay
\* entries before and after every step (the append and the pop inside
\* assign_reward cancel).
C4_QueueLength ==
    kind = "grid_1D_delay" => Len(future_reward) = max_delay

\* A delay world has paid out a reward that went through the queue.
C4_Witness ==
    /\ kind = "grid_1D_delay"
    /\ timestep >= 1
    /\ ~crashed
    /\ reward > 0

\* C5: the sensors a step of grid_1D, grid_1D_delay, grid_1D_ms,
\* grid_1D_noise or grid_2D returns have exactly one entry 1 and all
\* others 0; those of grid_2D_dc have exactly one 1 among the first
\* world_size entries and exactly one among the next world_size.
C5_OneHot ==
    /\ (kind \in WrapKinds \cup {"grid_2D"}) /\ timestep >= 0 /\ ~crashed
          => /\ \A i \in DOMAIN sensors : sensors[i] \in {0, 1}
             /\ SumSeq(sensors) = 1
    /\ kind = "grid_2D_dc" /\ timestep >= 0
          => /\ \A i \in DOMAIN sensors : sensors[i] \in {0, 1}
             /\ SumSeq(sensors) = 2
             /\ SumSeq(SubSeq(sensors, 1, world_size)) = 1
             /\ SumSeq(SubSeq(sensors, world_size + 1, 2 * world_size)) = 1

\* A one-dimensional grid has stepped off the first cell.
C5_Witness ==
    /\ kind \in Grid1DKinds
    /\ timestep >= 0
    /\ ~crashed
    /\ simple_state > 0

\* C7: run() first calls step once, with an all-zero action of length
\* num_actions; after that every call follows the cycle is_alive,
\* sense_act_learn, step, visualize; the agent is given exactly the pair
\* the preceding step returned; after is_alive has returned false only
\* report_performance is called.
C7_LoopOrder ==
    /\ calls # <<>>
          => /\ calls[1] = "step"
             /\ prime_action = ZeroAction(NumActions(kind))
    /\ \A i \in 2 .. Len(calls) :
          /\ calls[i] = "is_alive"
                => calls[i - 1] = (IF i = 2 THEN "step" ELSE "visualize")
          /\ calls[i] = "sense_act_learn" => calls[i - 1] = "is_alive"
          /\ calls[i] = "step" => calls[i - 1] = "sense_act_learn"
          /\ calls[i] = "visualize" => calls[i - 1] = "step"
          /\ calls[i] = "report_performance" => calls[i - 1] = "is_alive"
    /\ pc = "agent" => alive_result = TRUE
    /\ pc \in {"report", "done"} => alive_result = FALSE
    /\ pc = "step" => agent_in = <<sensors, reward>>

\* run() has gone twice round the loop and has returned.
C7_Witness ==
    /\ pc = "done"
    /\ StepCalls = 3
    /\ kind = "grid_1D_chase"

\* C8: for a world that uses the is_alive of the base world (any world but
\* cartpole; grid_1D_noise, whose step can raise, is left aside), the loop
\* of run() ends only by timestep reaching lifespan: when run() is over,
\* it has returned, timestep = lifespan and step was called lifespan + 1
\* times.
C8_EndsAtLifespan ==
    kind \notin {"cartpole", "grid_1D_noise"} /\ pc \in {"done", "raised"}
        => /\ pc = "done"
           /\ timestep = lifespan
           /\ StepCalls = lifespan + 1

\* C9: is_alive of the base world returns true exactly when timestep <
\* lifespan, and a call of is_alive leaves every attribute of the world
\* unchanged (cartpole overrides is_alive to return self.alive; its call
\* is a pure query too).
C9_IsAlivePure ==
    [][pc = "check"
         => /\ worldVars' = worldVars
            /\ kind # "cartpole" => alive_result' = (timestep < lifespan)]_vars

\* is_alive has returned false to run() after the loop went round.
C9_Witness ==
    /\ kind # "cartpole"
    /\ pc = "report"
    /\ alive_result = FALSE
    /\ timestep = lifespan
    /\ StepCalls > 1

\* C10, as stated: every call of step of every world increments timestep
\* by exactly one.
C10_EveryStepIncrements ==
    [][wpc = "idle" => timestep' = timestep + 1]_vars

\* C10, amended: timestep starts at -1 and every call of step increments
\* it by exactly one in every world but cartpole; in cartpole timestep
\* counts the finished episodes: it starts at 0 and a call of step
\* increments it by one when env.step reported done (the step counter
\* cartpole_counter is then reset to 0) and leaves it unchanged otherwise.
C10_Timestep ==
    /\ timestep = (IF kind = "cartpole" THEN 0 ELSE -1)
    /\ [][wpc = "idle"
            => timestep' = (IF kind = "cartpole" /\ cartpole_counter' # 0
                            THEN timestep ELSE timestep + 1)]_vars

\* A cartpole has finished one episode and has stepped into the next.
C10_Witness ==
    /\ kind = "cartpole"
    /\ timestep = 1
    /\ cartpole_counter = 1

\* C11: a failure raised inside world.visualize (by visualize_world or by
\* brain.visualize) never ends run(): no run is ended by an exception that
\* came out of the body of visualize.
C11_VisualizeContained == raised_by # "visualize"

\* C12: in the delay world the rewards delivered so far plus the values
\* still held in future_reward add up to the undelayed rewards computed so
\* far.
C12_RewardConserved ==
    kind = "grid_1D_delay"
        => total_delivered + SumSeq(future_reward) = total_computed

\* A delay world has computed rewards that do not cancel.
C12_Witness ==
    /\ kind = "grid_1D_delay"
    /\ timestep >= 1
    /\ new_reward < 0
    /\ total_computed > 0

\* C13: in the delay world a reward computed at tick T is delivered at
\* tick T or at tick T + 1 and both outcomes can occur: every delay from 0
\* to max_delay is among the values the delay is drawn from.
C13_BothDelaysDrawn ==
    kind = "grid_1D_delay" => \A d \in 0 .. max_delay : d \in DelayDraws

\* C13, what the code does instead: the reward a step of the delay world
\* returns is always the reward it has just computed; none is delivered a
\* tick later.
C13_DeliveredAtOnce ==
    kind = "grid_1D_delay" /\ timestep >= 0 => reward = new_reward

\* C14: the undelayed reward the delay world computes in a step equals the
\* reward assign_reward of grid_1D returns for the same sensors and
\* energy, the floor at -1 included.
C14_SameAsGrid1D ==
    kind = "grid_1D_delay" /\ timestep >= 0
        => new_reward = Grid1DAssignReward(sensors, energy)

\* The rounded action of grid_1D with only the 4-steps-right entry set.
PlusFour == OneHot(Grid1DNumActions, 3)

\* The first step of grid_1D, from position 0, was given PlusFour and did
\* not jump.
PlusFourFromZero ==
    /\ kind = "grid_1D"
    /\ timestep = 0
    /\ action = PlusFour
    /\ ~jump_taken

\* C15, as stated: in grid_1D started at position 0, one step with only the
\* 4-steps-right entry set and no jump yields simple_state = 4 and a
\* reward of 1.0 less the energy cost.
C15_PlusFourRewarded ==
    PlusFourFromZero
        => /\ simple_state = 4
           /\ reward = 100 - energy * Grid1DEnergyCost

\* C15, amended: that step yields simple_state = 4, the fifth position,
\* and its reward is the energy cost alone, -0.04; the reward of 1.0 less
\* the energy cost is given at simple_state = 3, the fourth position.
C15_FourthPositionRewarded ==
    /\ PlusFourFromZero
          => /\ simple_state = 4
             /\ energy = 4
             /\ reward = 0 - energy * Grid1DEnergyCost
    /\ kind = "grid_1D" /\ timestep >= 0 /\ simple_state = 3
          => reward = 100 - energy * Grid1DEnergyCost

\* grid_1D has made the step by +4 from position 0 without a jump.
C15_Witness == PlusFourFromZero /\ simple_state = 4

\* The rounded action of grid_1D_chase with only the 1-step-left entry set.
OneStepLeft == OneHot(NumActions("grid_1D_chase"), size - 1)

\* One transition of the chase world, as C16 describes it.
ChaseRewardOrder ==
    kind = "grid_1D_chase" =>
        \* the move: the reward is set from the clamped new position and
        \* the target held before any relocation, which stays in place
        /\ timestep' # timestep =>
              /\ position' = Max(Min(position
                                     + ScaledSum(action', 0, size - 1)
                                     - ScaledSum(action', size - 1, size - 1),
                                     size - 1), 0)
              /\ reward' = (IF position' = target_position THEN 100 ELSE 0)
                               - energy' * Grid1DEnergyCost
              /\ target_position' = target_position
        \* the relocation comes after the reward and leaves it alone
        /\ target_position' # target_position =>
              /\ wpc = "move_target"
              /\ timestep' = timestep
              /\ reward' = reward
              /\ position' = position
        \* step returns with the target off the agent
        /\ wpc = "move_target" /\ wpc' = "idle" =>
              target_position' # position'
        \* from position 2 with the target at 1, one step left is rewarded
        /\ (timestep = -1 /\ position = 2 /\ target_position = 1
                /\ action' = OneStepLeft) =>
              reward' >= 100 - 1 * Grid1DEnergyCost

\* C16: in grid_1D_chase the reward is 1 when the clamped position after the
\* move equals the target as it was before relocation, else 0, less
\* energy * energy_cost; the target is relocated only after the reward is
\* assigned, to a position other than the agent's; from position 2 with the
\* target at 1 a single step left earns at least 1 less the energy cost.
C16_RewardBeforeRelocation == [][ChaseRewardOrder]_vars

\* The first step went one step left onto the target, was rewarded, and the
\* target has been relocated since.
C16_Witness ==
    /\ kind = "grid_1D_chase"
    /\ timestep = 0
    /\ action = OneStepLeft
    /\ position = 1
    /\ reward = 99
    /\ wpc = "idle"
    /\ target_position # 1

\* The floating-point tolerance of the nine operations of one
\* center-surround pixel over pixels of value c: half a unit in the last
\* place each.
Tolerance(c) == (9 * c) \div Pow2(MantissaBits + 1)

\* C17: center_surround of a constant field of view is all zeros, within
\* floating-point tolerance, also when a superpixel block is narrower than
\* one pixel; so an image world over a uniform gray image returns sensors
\* that are all zero at every position and for every action.
C17_UniformGrayZero ==
    kind \in ImageKinds /\ timestep >= 0
        => \A i \in DOMAIN sensors :
              sensors[i] # NaN /\ sensors[i] <= Tolerance(Gray)

\* The same for the fields of view all of whose blocks hold a pixel.
C17_WideBlocksZero ==
    \A fh \in FovSides : \A fw \in FovSides :
        fh >= fov_span + 2 /\ fw >= fov_span + 2
            => \A i \in DOMAIN FovSensors[fh][fw] :
                  /\ FovSensors[fh][fw][i] # NaN
                  /\ FovSensors[fh][fw][i] <= Tolerance(Gray)

\* C18: in every world class, the continuous-sensor subclasses included,
\* every step completes without an indexing error and returns exactly
\* num_sensors sensors; stated here for the continuous-sensor subclasses.
C18_ContStepsComplete ==
    kind \in ContKinds
        => /\ ~crashed
           /\ wpc = "idle" => Len(sensors) = NumSensors(kind)

\* The one continuous-sensor subclass whose parent calls self.sense():
\* its steps complete and return the single float world_state.
C18_MsContSteps ==
    kind = "grid_1D_ms_cont" /\ timestep >= 0
        => ~crashed /\ sensors = <<world_state>>

\* C19: the continuous-sensor subclasses sense differently from their
\* parents and are otherwise the same: after any step grid_1D_cont and
\* grid_1D_delay_cont return the single float world_state, grid_1D_chase_cont
\* returns (position, position - target_position) and grid_2D_cont returns
\* the two coordinates of world_state.
C19_ContSensing ==
    timestep >= 0 /\ wpc = "idle" =>
        /\ kind \in {"grid_1D_cont", "grid_1D_delay_cont"}
              => ~crashed /\ sensors = <<world_state>>
        /\ kind = "grid_1D_chase_cont"
              => ~crashed /\ sensors = <<position, position - target_position>>
        /\ kind = "grid_2D_cont"
              => ~crashed /\ sensors = world_state

\* grid_2D_cont, when its step does not raise, returns the one-hot sensors
\* of grid_2D cut to two entries, not world_state.
C19_Grid2DContOneHot ==
    kind = "grid_2D_cont" /\ timestep >= 0 /\ ~crashed
        => /\ world_state \in {<<0, 0>>, <<1, 0>>}
           /\ sensors = OneHot(2, world_state[1])

\* C20: world.step never modifies the action vector of its caller: when the
\* step run() calls returns or raises, the array actions of run() holds the
\* values it held before the call.
C20_CallerActionKept ==
    [][(pc \in {"step", "in_step"}) => (actions' = actions)]_vars

\* The classes that work on an array of their own leave the caller's alone.
C20_CopiedActionKept ==
    [][(/\ pc \in {"step", "in_step"}
        /\ ParentOf(kind) \notin Grid2DKinds \cup ImageKinds)
          => (actions' = actions)]_vars

\* The center-surround values, before the split into two channels, for each
\* shape of the field of view.
C21_Unsplit ==
    [fh \in FovSides |-> [fw \in FovSides |->
        center_surround(fh, fw, fov_span, fov_span, Gray)]]

\* The center-surround values of the field of view at the present position.
C21_Surround ==
    LET w == FovWindow(kind, image, row_position, column_position)
    IN  C21_Unsplit[w[2] - w[1]][w[4] - w[3]]

\* C21: in image_1D and image_2D the sensors are 2 * fov_span^2 numbers, none
\* negative; of sensors[i] and sensors[i + fov_span^2] at most one is not
\* zero, and their difference is the center-surround value of superpixel i.
C21_SignedChannels ==
    kind \in ImageKinds /\ timestep >= 0 =>
        /\ Len(sensors) = 2 * fov_span * fov_span
        /\ \A i \in 1 .. (fov_span * fov_span) :
              /\ sensors[i] # NaN /\ sensors[i] >= 0
              /\ sensors[i + fov_span * fov_span] # NaN
              /\ sensors[i + fov_span * fov_span] >= 0
              /\ sensors[i] = 0 \/ sensors[i + fov_span * fov_span] = 0
              /\ C21_Surround[i] # NaN
              /\ FloatSub(sensors[i], sensors[i + fov_span * fov_span])
                    = C21_Surround[i]

\* The same where center_surround returns numbers: every block of the field
\* of view holds a pixel.
C21_SignedChannelsOfNumbers ==
    kind \in ImageKinds /\ timestep >= 0
        /\ (\A i \in DOMAIN C21_Surround : C21_Surround[i] # NaN) =>
        /\ Len(sensors) = 2 * fov_span * fov_span
        /\ \A i \in 1 .. (fov_span * fov_span) :
              /\ sensors[i] >= 0
              /\ sensors[i + fov_span * fov_span] >= 0
              /\ sensors[i] = 0 \/ sensors[i + fov_span * fov_span] = 0
              /\ sensors[i] - sensors[i + fov_span * fov_span]
                    = C21_Surround[i]

\* The field of view is centered strictly within reward_region_width / 2 =
\* im_size / 16 of the target on every axis of the world.
C22_OnTarget ==
    /\ Abs(16 * column_position - 8 * image.w) < Min(image.h, image.w)
    /\ kind = "image_2D"
          => Abs(16 * row_position - 8 * image.h) < Min(image.h, image.w)

\* C22: in image_1D and image_2D the reward of a step is 1 when the center of
\* the field of view is strictly within reward_region_width / 2 of the
\* target on every axis, else 0, less a step cost in proportion to the size
\* of the step taken: nothing for no step, something for a step.
C22_RewardLessStepCost ==
    kind \in ImageKinds /\ timestep >= 0 =>
        /\ step_taken = <<0, 0>>
              => reward = (IF C22_OnTarget THEN 100 ELSE 0)
        /\ step_taken # <<0, 0>>
              => reward < (IF C22_OnTarget THEN 100 ELSE 0)

\* image_1D charges step_cost * |column_step| / max_step_size.
C22_Image1DStepCost ==
    kind = "image_1D" /\ timestep >= 0 =>
        reward = (IF C22_OnTarget THEN 100 ELSE 0)
                    - (20 * Abs(step_taken[2])) \div image.w

\* image_2D charges nothing for the step.
C22_Image2DNoStepCost ==
    kind = "image_2D" /\ timestep >= 0 =>
        reward = (IF C22_OnTarget THEN 100 ELSE 0)

\* One transition of an image world leaves the entries of a history as they
\* are and, when it is a step, adds one entry at the end.
C23_HistoryStep(h, hnew) ==
    /\ Len(hnew) = Len(h) + (IF timestep' # timestep THEN 1 ELSE 0)
    /\ SubSeq(hnew, 1, Len(h)) = h

\* One transition of an image world, for each history of the world.
C23_HistoryKept ==
    kind \in ImageKinds
        => /\ C23_HistoryStep(column_history, column_history')
           /\ kind = "image_2D"
                 => C23_HistoryStep(row_history, row_history')

\* The sensors and the reward of an image world are functions of the
\* position, of the step taken and of the image: the histories are not read.
C23_HistoryNotRead ==
    timestep >= 0 =>
        /\ sensors = ImageSensors(FovWindow(kind, image, row_position,
                                            column_position))
        /\ kind = "image_1D"
              => reward = Image1DReward(column_position, step_taken[2],
                                        image.w)
        /\ kind = "image_2D"
              => reward = Image2DReward(row_position, column_position, image)

\* C23: in image_1D and image_2D column_history, and row_history in
\* image_2D, gains exactly one entry with each step and no entry is ever
\* lost or rewritten, so its length is the number of steps made; the sensors
\* and the reward do not read the histories.
C23_HistoryGrows ==
    /\ [][C23_HistoryKept]_vars
    /\ [](kind \in ImageKinds
            => /\ Len(column_history) = timestep + 1
               /\ kind = "image_2D" => Len(row_history) = timestep + 1
               /\ C23_HistoryNotRead)

\* image_2D has made three steps that ended on different columns.
C23_Witness ==
    /\ kind = "image_2D"
    /\ Len(row_history) = 3
    /\ Len(column_history) = 3
    /\ column_history[1] # column_history[2]
    /\ column_history[3] = column_position

\* C24: a world cannot be constructed with a lifespan of 0 or less (the
\* constructor fails with InvalidConfiguration), so no step is ever made on
\* a world with such a lifespan.
C24_NoStepOnNonPositiveLifespan ==
    lifespan <= 0 => \A i \in DOMAIN calls : calls[i] # "step"

\* C25: step rejects an action vector whose length is not num_actions and
\* leaves the world as it was, so the action a world has taken in always
\* has num_actions entries.
C25_WrongLengthRejected ==
    kind \in {"grid_1D", "grid_1D_chase"} => Len(action) = NumActions(kind)

\* C26: in grid_2D, counting rows and columns from 1, a step that ends on
\* (4,4) yields +1 less the energy cost and a step that ends on (2,2) yields
\* -1 less the energy cost.
C26_DocumentedRewards ==
    kind = "grid_2D" /\ timestep >= 0 =>
        /\ world_state = <<3, 3>>
              => reward = 100 - Grid2DEnergyCost * Grid2DEnergy(action)
        /\ world_state = <<1, 1>>
              => reward = 0 - 100 - Grid2DEnergyCost * Grid2DEnergy(action)

\* What the code does: (2,2) and (4,4) are both rewarded, (2,4) and (4,2)
\* are punished.
C26_CodedRewards ==
    kind = "grid_2D" /\ timestep >= 0 =>
        /\ world_state \in {<<1, 1>>, <<3, 3>>}
              => reward = 100 - Grid2DEnergyCost * Grid2DEnergy(action)
        /\ world_state \in {<<1, 3>>, <<3, 1>>}
              => reward = 0 - 100 - Grid2DEnergyCost * Grid2DEnergy(action)

\* One step of the fruit world: the reward is for what was done with the
\* fruit held before the step; an entry exceeds 0.5 when it is above 1 half.
C27_FruitStep ==
    kind = "fruit" /\ timestep' # timestep =>
        LET eats     == action'[1] > 1
            discards == ~eats /\ action'[2] > 1
        IN  /\ eat' = eats
            /\ discard' = discards
            /\ reward' = (IF (eats /\ edible) \/ (discards /\ ~edible) THEN 100
                          ELSE IF eats \/ discards THEN -90
                          ELSE -10)

\* C27: in the fruit world a fruit is edible exactly when it is small and
\* purple or large and yellow; a step returns 1 when the fruit presented
\* before it is eaten and edible or discarded and inedible, -0.9 when it is
\* eaten and inedible or discarded and edible, -0.1 when neither action
\* exceeds 0.5; with both actions above 0.5 the step is an eat.
C27_FruitRewards ==
    /\ [][C27_FruitStep]_vars
    /\ [](kind = "fruit" =>
            (edible <=> \/ (sensors[2] = 1 /\ sensors[4] = 1)
                        \/ (sensors[1] = 1 /\ sensors[3] = 1)))

\* Both actions were above 0.5, the step counted as an eat of an inedible
\* fruit, and a new fruit has been grabbed.
C27_Witness ==
    /\ kind = "fruit"
    /\ timestep >= 0
    /\ action = <<2, 2>>
    /\ eat /\ ~discard
    /\ reward = -90

\* One step of the vacuum world; action[0] is Left, action[1] is Right, and
\* a command is set when its rounded entry is not 0.
C28_VacuumStep ==
    kind = "vacuum" /\ timestep' # timestep =>
        LET left  == action'[1] # 0
            right == action'[2] # 0
        IN  /\ left /\ ~right =>
                  /\ state' = 0
                  /\ reward' = (IF state = 1 THEN 100 ELSE -100)
            /\ right /\ ~left =>
                  /\ state' = 1
                  /\ reward' = (IF state = 0 THEN 100 ELSE -100)
            /\ (left <=> right) =>
                  /\ state' = state
                  /\ reward' = 0

\* C28: in the vacuum world the room is always 0 or 1; a step into the
\* other room yields 1, a step into a wall yields -1 and leaves the room as
\* it is, a step with no command or with both yields 0 and leaves the room
\* as it is; so alternating Right and Left from room A earns 1 every step.
C28_VacuumRewards ==
    /\ [][C28_VacuumStep]_vars
    /\ [](kind = "vacuum" => state \in {0, 1})

\* Right and then Left from room A: the second step is back in room A and
\* has earned 1, as the first did in reaching room B.
C28_Witness ==
    /\ kind = "vacuum"
    /\ timestep = 1
    /\ state = 0
    /\ reward = 100
    /\ action[1] # 0 /\ action[2] = 0

\* The sum of the rewards on record that are due at tick t.
RECURSIVE C29_SumOf(_)
C29_SumOf(S) ==
    IF S = {} THEN 0
    ELSE LET rec == CHOOSE x \in S : TRUE
         IN  rec[3] + C29_SumOf(S \ {rec})

C29_DueAt(t) == C29_SumOf({rec \in scheduled : rec[1] + rec[2] = t})

C30_Magnitudes(k) ==
    IF k = "grid_1D" THEN <<1, 2, 3, 4, 1, 2, 3, 4>>
    ELSE IF k = "grid_1D_chase" THEN <<1, 2, 3, 4, 5, 6, 1, 2, 3, 4, 5, 6>>
    ELSE <<1, 1, 2, 2, 1, 1, 2, 2>>

\* The sum, over the entries of the rounded or binarized action a, of the
\* steps each commands.
C30_Commanded(k, a) ==
    SumSeq([i \in DOMAIN C30_Magnitudes(k) |-> a[i] * C30_Magnitudes(k)[i]])

C30_EnergyCost(k) == IF k = "grid_2D" THEN Grid2DEnergyCost ELSE Grid1DEnergyCost

\* A step of one of the three worlds that has assigned its reward.
C30_Charged ==
    /\ kind \in {"grid_1D", "grid_1D_chase", "grid_2D"}
    /\ timestep' # timestep
    /\ ~crashed'

\* The reward of the place the step ends on, before the energy is charged:
\* the chase world compares with the target it held before the step.
C30_PlaceReward ==
    IF kind = "grid_1D" THEN 100 * sensors'[4] - 100 * sensors'[9]
    ELSE IF kind = "grid_1D_chase"
         THEN (IF position' = target_position THEN 100 ELSE 0)
    ELSE IF world_state' \in targets THEN 100
    ELSE IF world_state' \in obstacles THEN -100 ELSE 0

C30_ReducedByEnergy ==
    C30_Charged =>
        reward' = C30_PlaceReward
                    - C30_EnergyCost(kind) * C30_Commanded(kind, action')

C30_ReducedThenFloored ==
    C30_Charged =>
        /\ kind # "grid_2D" => energy' = C30_Commanded(kind, action')
        /\ reward' =
              (IF kind = "grid_1D"
               THEN Max(C30_PlaceReward
                          - C30_EnergyCost(kind) * C30_Commanded(kind, action'),
                        -100)
               ELSE C30_PlaceReward
                      - C30_EnergyCost(kind) * C30_Commanded(kind, action'))

\* C30: in grid_1D, chase and grid_2D the energy charged on a step is the
\* sum, over every rounded or binarized action entry of both directions,
\* of the steps the entry commands, whatever cancels, is clamped or is
\* overwritten by a jump, and the reward the step returns is the reward of
\* the place less energy_cost * energy.
C30_ChargedInFull == [][C30_ReducedByEnergy]_vars

\* C30 as the code has it: the energy is that sum; the reward is the reward
\* of the place less energy_cost * energy, and in grid_1D that difference
\* is then raised to -1 where it is lower.
C30_ChargedInFullThenFloored == [][C30_ReducedThenFloored]_vars

\* grid_1D has taken every command at once from position 0: the moves
\* cancel, the position is kept, and all twenty steps are charged.
C30_Witness ==
    /\ kind = "grid_1D"
    /\ timestep = 0
    /\ \A i \in DOMAIN action : action[i] = 1
    /\ ~jump_taken
    /\ simple_state = 0
    /\ energy = 20
    /\ reward = 0 - 20 * Grid1DEnergyCost

\* grid_1D stands on the punished position after a move that cost energy.
C30_FloorWitness ==
    /\ kind = "grid_1D"
    /\ simple_state = 8
    /\ energy > 0
    /\ reward = -100

\* A step of the delay or the noise world that ends on a punished position
\* and has spent energy returns a reward below -1.
C31_UnflooredStep ==
    /\ (/\ kind = "grid_1D_delay" /\ timestep' # timestep /\ ~crashed'
        /\ sensors'[9] = 1 /\ energy' > 0) => (reward' < -100)
    /\ (/\ kind = "grid_1D_noise" /\ timestep' # timestep /\ ~crashed'
        /\ simple_state' # 1 /\ action'[1] + action'[2] > 0) => (reward' < -100)

C31_NoiseWitness ==
    /\ kind = "grid_1D_noise"
    /\ timestep >= 0
    /\ reward < -100

\* grid_1D_ms stands on its punished position after a move that cost
\* energy, and the floor holds the reward at -1.
C31_MsFloorWitness ==
    /\ kind = "grid_1D_ms"
    /\ simple_state = 8
    /\ energy > 0
    /\ reward = -100

\* The (0-based) index of the distance sensor of the difference d.
C32_DistanceIndex(d) ==
    IF d < 0 THEN size - 1 + Abs(d) ELSE 2 * (size - 1) + Abs(d)

\* The pairs of an agent position and a different target position.
C32_Pairs == {pt \in (0 .. (size - 1)) \X (0 .. (size - 1)) : pt[1] # pt[2]}

\* Different pairs of position and target have different sensors.
C32_Distinct ==
    \A a \in C32_Pairs : \A b \in C32_Pairs :
        ChaseSensors(a[1], a[2]) = ChaseSensors(b[1], b[2]) => a = b

\* C32: after every chase step the size + 2 * (size - 1) sensors hold
\* exactly two 1s: one at index position, within [0, size), and one at index
\* size - 1 + |d| when d = position - target < 0 or 2 * (size - 1) + |d|
\* when d > 0; both are in range, the block of d < 0 (size .. 2 * (size - 1)),
\* the block of d > 0 and the position block do not overlap, and different
\* pairs of position and target give different sensors.
C32_ChaseSensors ==
    kind = "grid_1D_chase" /\ timestep >= 0 /\ wpc = "idle" =>
        LET d == position - target_position
        IN  /\ Len(sensors) = size + 2 * (size - 1)
            /\ SumSeq(sensors) = 2
            /\ \A i \in DOMAIN sensors : sensors[i] \in {0, 1}
            /\ position \in 0 .. (size - 1)
            /\ sensors[position + 1] = 1
            /\ d # 0
            /\ C32_DistanceIndex(d) \in 0 .. (Len(sensors) - 1)
            /\ sensors[C32_DistanceIndex(d) + 1] = 1
            /\ d < 0 => C32_DistanceIndex(d) \in size .. (2 * (size - 1))
            /\ d > 0 => C32_DistanceIndex(d)
                           \in (2 * (size - 1) + 1) .. (size + 2 * (size - 1) - 1)
            /\ C32_Distinct

\* The agent stands at 0 and the target at size - 1: the farthest the
\* target can be to the right, sensed at the last index of its block.
C32_Witness ==
    /\ kind = "grid_1D_chase"
    /\ wpc = "idle"
    /\ timestep >= 0
    /\ position = 0
    /\ target_position = size - 1
    /\ sensors[2 * (size - 1) + 1] = 1

\* The target changes only inside move_target, while the agent, already
\* moved and clamped, stands on it.
C33_TargetKept ==
    kind = "grid_1D_chase" /\ target_position' # target_position =>
        wpc = "move_target" /\ position = target_position

\* C33: in the chase world the target moves only when it has been reached:
\* if position # target_position after the clamped move, the step leaves
\* target_position as it is; target_position is always an integer in
\* [0, size).
C33_TargetMovesWhenReached ==
    /\ [][C33_TargetKept]_vars
    /\ [](kind = "grid_1D_chase" => target_position \in 0 .. (size - 1))

\* The agent has reached the target, which was drawn again and is now the
\* last position; the step has returned.
C33_Witness ==
    /\ kind = "grid_1D_chase"
    /\ wpc = "idle"
    /\ timestep = 0
    /\ position = 1
    /\ reward > 0
    /\ target_position = size - 1

\* C34: under a fair random source, with size >= 2, the loop of
\* move_target ends on every step of the chase world, and the step returns.
C34_MoveTargetEnds ==
    (kind = "grid_1D_chase" /\ wpc = "move_target")
        ~> (wpc = "idle" /\ ~crashed)

\* The second step of a chase world has reached the target, and the loop
\* of move_target is about to draw.
C34_Witness ==
    /\ kind = "grid_1D_chase"
    /\ wpc = "move_target"
    /\ timestep = 1
    /\ target_position = position

C36_Size(k) == IF k = "grid_1D_noise" THEN num_real_sensors ELSE NumSensors(k)

\* C36: in grid_1D, grid_1D_ms and grid_1D_noise simple_state equals
\* floor(world_state) reduced modulo the grid size in every reachable
\* state, from construction onward, jumps to fractional places included.
C36_SimpleStateDerived ==
    kind \in {"grid_1D", "grid_1D_ms", "grid_1D_noise"} =>
        simple_state = FloorInt(world_state) % C36_Size(kind)

\* C36, what the code keeps: the equality holds in grid_1D from
\* construction onward, and in grid_1D_ms once a step has been taken.
C36_DerivedOnceStepped ==
    \/ kind = "grid_1D"
    \/ kind = "grid_1D_ms" /\ timestep >= 0
    => simple_state = FloorInt(world_state) % C36_Size(kind)

\* C36, where grid_1D_noise departs after a step (grid_1D_ms departs at
\* construction).
C36_NoiseDerived ==
    kind = "grid_1D_noise" =>
        simple_state = FloorInt(world_state) % C36_Size(kind)

\* The call world.visualize(brain) of run() does not raise by being called.
C37_CallSucceeds == raised_by # "visualize call"

\* The world is shown only on ticks that are multiples of its
\* world_visualize_period, and the brain only on multiples of its
\* brain_visualize_period.
C37_ShownOnPeriod ==
    pc = "visualize" /\ ~VisualizeRaises(kind) =>
        /\ WorldShown(kind, timestep)
              => timestep % WorldVisualizePeriod(kind) = 0
        /\ RendersBrain(kind, timestep)
              => timestep % BrainVisualizePeriod(kind) = 0

\* C37: when run() calls world.visualize(brain) after each step, the world
\* is shown only on ticks where timestep is a multiple of
\* world_visualize_period (the brain on multiples of brain_visualize_period),
\* and the call succeeds for every world class, grid_1D_ms and vacuum, which
\* define their own visualize, included.
C37_VisualizeRateLimited == C37_CallSucceeds /\ C37_ShownOnPeriod

\* C37, what the code keeps: both hold for every class that uses the
\* visualize of the base world.
C37_BaseVisualize ==
    ParentOf(kind) \notin {"grid_1D_ms", "vacuum"} =>
        C37_CallSucceeds /\ C37_ShownOnPeriod

\* The number of calls of f run() has made, and the place of the last one.
C38_Count(f) == Cardinality({i \in DOMAIN calls : calls[i] = f})

C38_Last(f) ==
    IF C38_Count(f) = 0 THEN 0
    ELSE CHOOSE i \in DOMAIN calls :
            calls[i] = f /\ \A j \in DOMAIN calls : calls[j] = f => j <= i

\* A run that has returned called report_performance once, as its last
\* call and after the last step, and gave the agent every pair a step
\* returned but the last one.
C38_ReportedOnce ==
    /\ C38_Count("report_performance") = 1
    /\ calls[Len(calls)] = "report_performance"
    /\ C38_Last("step") < C38_Last("report_performance")
    /\ C38_Last("sense_act_learn") < C38_Last("step")
    /\ C38_Count("sense_act_learn") = StepCalls - 1

C38_CartpoleWitness ==
    /\ pc = "done"
    /\ kind = "cartpole"
    /\ C38_Count("sense_act_learn") > lifespan

\* The rows and the columns the field of view of class k has on an image of
\* shape im: image_1D takes every row of the image and fov_width columns;
\* image_2D takes int(p + f / 2) - int(p - f / 2) of each, which is
\* floor(f / 2) + ceil(f / 2), f = fov_height = fov_width.
C39_Rows(k, im) ==
    IF k = "image_1D" THEN im.h
    ELSE FovHalves(k, im) \div 4 + CeilDiv(FovHalves(k, im), 4)

C39_Columns(k, im) == FovHalves(k, im) \div 4 + CeilDiv(FovHalves(k, im), 4)

\* The slice at (row, col) lies inside the image and is not empty.
C39_Inside(k, im, row, col) ==
    LET w == FovWindow(k, im, row, col)
    IN  /\ 0 <= w[1] /\ w[1] < w[2] /\ w[2] <= im.h
        /\ 0 <= w[3] /\ w[3] < w[4] /\ w[4] <= im.w

\* The slice at (row, col) has fov_height rows and fov_width columns.
C39_FovSized(k, im, row, col) ==
    LET w == FovWindow(k, im, row, col)
    IN  /\ 2 * (w[2] - w[1]) = (IF k = "image_1D" THEN 1 ELSE 2) * Min(im.h, im.w)
        /\ 2 * (w[4] - w[3]) = (IF k = "image_1D" THEN 2 ELSE 1) * Min(im.h, im.w)

\* The slice at (row, col) has the rows and columns of every slice.
C39_SameSized(k, im, row, col) ==
    LET w == FovWindow(k, im, row, col)
    IN  /\ w[2] - w[1] = C39_Rows(k, im)
        /\ w[4] - w[3] = C39_Columns(k, im)

\* The positions the field of view can be centred on.
C39_Positions(k, im) ==
    (IF k = "image_1D" THEN {0} ELSE RowMin(k, im) .. RowMax(k, im))
    \X (ColumnMin(k, im) .. ColumnMax(k, im))

\* On every image of sides up to MaxSide, fields of view of even, odd and
\* fractional size included, every slice is inside and of the one size.
C39_EveryShape ==
    \A k \in ImageKinds : \A h \in 1 .. MaxSide : \A w \in 1 .. MaxSide :
        \A p \in C39_Positions(k, [h |-> h, w |-> w]) :
            /\ C39_Inside(k, [h |-> h, w |-> w], p[1], p[2])
            /\ C39_SameSized(k, [h |-> h, w |-> w], p[1], p[2])

C40_HistoryIsPosition ==
    kind \in ImageKinds /\ timestep >= 0 =>
        /\ column_history # <<>>
        /\ column_history[Len(column_history)] = column_position
        /\ sensors = ImageSensors(FovWindow(kind, image, row_position,
                                            column_position))
        /\ kind = "image_2D" =>
              /\ row_history # <<>>
              /\ row_history[Len(row_history)] = row_position

\* C40, what the code keeps: image_2D appends after the jump, so its last
\* entries are the position sensed.
C40_Image2DHistoryIsPosition ==
    kind = "image_2D" /\ timestep >= 0 =>
        /\ column_history[Len(column_history)] = column_position
        /\ row_history[Len(row_history)] = row_position
        /\ sensors = ImageSensors(FovWindow(kind, image, row_position,
                                            column_position))

=============================================================================
